---- MODULE Spec2Model ----
(***************************************************************************)
(* The connection session supervisor of src-tauri/src/main.rs: the shared  *)
(* VpnInner record behind one mutex, the vpn_connect / vpn_disconnect      *)
(* commands, startup recovery, and the three background threads a session  *)
(* starts (log tailer, connect watchdog, exit watcher).                    *)
(*                                                                         *)
(* One action is one critical section of the mutex together with the       *)
(* lock-free code around it; the mutex is released between two actions of  *)
(* the same thread, so other threads may run in between.                   *)
(***************************************************************************)
EXTENDS Integers, Sequences, FiniteSets, TLC

\* ---------------------------------------------------------------- bounds
MaxSession == 3       \* session ids the model allocates
MaxLines == 2         \* log lines the tailers read in one run
MaxCommands == 1      \* commands in progress at the same time
MaxTaskSets == 1      \* sessions that have started background threads
TwoTaskSets == 2      \* the same, in the two-session specification
OverlapCommands == 2  \* commands in progress together, in the overlap specification
MaxTime == 10000      \* last clock value (ms) of the untimed specification
CoarseTickMs == 10000 \* clock step (ms) of the untimed specification
MaxTimed == 13000     \* last clock value (ms) of the timed specification
TimedTickMs == 125    \* longest clock step (ms) of the timed specification
MaxConns == 3         \* connections the macOS helper accepts in one run
ChannelCap == 2       \* messages the broadcast channel retains (512 in the helper)

\* ------------------------------------------------------ program constants
CONNECT_STUCK_SECS == 10
CONNECT_STUCK_IDLE_GRACE_MS == 2000
WATCHDOG_POLL_MS == 250            \* the watchdog's sleep between two polls

\* ------------------------------------------------------------- value sets
NoId == 0 - 1                      \* Option::None of a child, pid or path
NoIp == "none"                     \* Option::None of last_remote_ip
SeededIp == "ip1"                  \* what resolve_host_to_ip returns
LearnedIp == "ip2"                 \* what the log's "link remote" line names
Sessions == 1..MaxSession
RecoveredChild == 0                \* the subprocess a previous run left behind
ChildIds == 0..MaxSession          \* child k was spawned by session k; pid = k
NoLine == {"-"}

VARIABLES
    \* VpnInner
    process, pid, status, auth_path, log_path, status_path, pid_path,
    session_id, killswitch_enabled, crash_recovery_enabled,
    last_remote_ip, last_log_at_ms,
    \* the world outside the supervisor
    now,            \* now_ms()
    alive,          \* subprocesses that are running
    auth_files,     \* credential files that exist (named by creating session)
    session_file,   \* session.json
    fw,             \* the dedicated firewall table
    lines_read,     \* log lines read so far, by all tailers
    fatal_logged,   \* the session whose tailer emitted "[fatal] AUTH_FAILED"
                    \* since the last vpn_connect began (0: none)
    \* what the caller of a command sees
    ret,            \* the command that returned in the last step, and its result
    \* threads
    main_pc, conn, disc, tailer, watchdog, watcher,
    \* the host
    has_nft,        \* linux_cmd_exists("nft")
    \* the macOS privileged helper (stellar-vpn-helper-macos.rs)
    h_status,       \* Inner.status
    h_child,        \* Inner.child
    h_alive,        \* the subprocesses the helper spawned that are running
    h_events,       \* every line sent on the broadcast channel, in order
    h_conn,         \* the accepted connections and their handler tasks
    h_reader,       \* the stdout reader task of each subprocess
    \* the client of the helper (macos_helper.rs), one per subscribed connection
    client,
    \* the log file of the tunnel subprocess, byte by byte, and its two readers
    log_file,        \* the bytes written so far
    pos,             \* start_log_file_tailer: the offset read up to
    carry,           \* start_log_file_tailer: the held-back incomplete line
    tailer_log,      \* the vpn-log events of start_log_file_tailer, in order
    OPENVPN_LOG_POS, \* src/macos_helper.rs: the offset read up to
    macos_log,       \* the vpn-log events of spawn_helper_subscriber, in order
    \* the calls of linux_killswitch_apply that are running, one per caller
    applying

paths == <<auth_path, log_path, status_path, pid_path>>
prefs == <<killswitch_enabled, crash_recovery_enabled>>
inner == <<process, pid, status, paths, session_id, prefs, last_remote_ip,
           last_log_at_ms>>
files == <<auth_files, session_file>>
world == <<now, alive, files, fw, lines_read, fatal_logged>>
threads == <<main_pc, conn, disc, tailer, watchdog, watcher>>
\* what the supervisor never writes
helper == <<h_status, h_child, h_alive, h_events, h_conn, h_reader, client>>
logs == <<log_file, pos, carry, tailer_log, OPENVPN_LOG_POS, macos_log>>
outside == <<has_nft, helper, logs, applying>>
supervisor == <<inner, world, ret, threads>>
vars == <<inner, world, ret, threads, outside>>

NoRec == [pid |-> NoId, log |-> NoId, rip |-> NoIp, ks |-> FALSE]
\* the dedicated firewall table (nft: inet stellarkillswitch, iptables: the
\* STELLAR_KILLSWITCH chain): whether it exists, how many times it is hooked
\* into the output path, its chain policy, and its rules in order
FwAbsent == [table |-> FALSE, hooks |-> 0, policy |-> "none", rules |-> <<>>]

NoRet == [cmd |-> "none", sid |-> 0, res |-> "none"]
Returns(cmd, sid, res) == ret' = [cmd |-> cmd, sid |-> sid, res |-> res]
Continues == ret' = NoRet

ConnIdle == [pc |-> "idle", auth |-> FALSE, seeded |-> NoIp, pid |-> NoId, cr |-> FALSE]
TailerIdle == [pc |-> "idle", line |-> NoLine, tightened |-> FALSE]
WatchdogIdle == [pc |-> "idle", deadline |-> 0, wake |-> 0, child |-> NoId,
                 auth |-> NoId, pid |-> NoId, ks_on |-> FALSE, rip |-> NoIp]
DiscIdle == [pc |-> "idle", sid |-> 0, child |-> NoId, auth |-> NoId, pid |-> NoId,
             ks_on |-> FALSE, rip |-> NoIp]

\* VpnState::new, before main's setup closure has run; a previous run may have
\* left session.json and its subprocess behind
VpnStateNew ==
    /\ process = NoId /\ pid = NoId /\ status = "disconnected"
    /\ auth_path = NoId /\ log_path = NoId /\ status_path = NoId /\ pid_path = NoId
    /\ session_id = 0
    /\ killswitch_enabled = FALSE /\ crash_recovery_enabled = TRUE
    /\ last_remote_ip = NoIp /\ last_log_at_ms = 0
    /\ now = 0
    /\ \E left \in BOOLEAN, running \in BOOLEAN, ks \in BOOLEAN :
         /\ session_file = IF left
                           THEN [pid |-> RecoveredChild, log |-> RecoveredChild,
                                 rip |-> NoIp, ks |-> ks]
                           ELSE NoRec
         /\ alive = IF left /\ running THEN {RecoveredChild} ELSE {}
         /\ (~left => (~running /\ ~ks))
    /\ auth_files = {}
    /\ fw = FwAbsent
    /\ lines_read = 0
    /\ fatal_logged = 0
    /\ ret = NoRet
    /\ main_pc = "setup"
    /\ conn = [s \in Sessions |-> ConnIdle]
    /\ disc = DiscIdle
    /\ tailer = [s \in Sessions |-> TailerIdle]
    /\ watchdog = [s \in Sessions |-> WatchdogIdle]
    /\ watcher = [s \in Sessions |-> "idle"]

\* the connections the helper accepts in one run
Conns == 1..MaxConns

NoReq == [cmd |-> "-"]
ConnFree == [pc |-> "free", req |-> NoReq, rx |-> 0, from |-> 0, snap |-> 0,
             got |-> <<>>, out |-> <<>>, lagged |-> FALSE]

\* the helper's main before its accept loop: the status, no child, an empty
\* broadcast channel; no client has subscribed
HelperMain ==
    /\ h_status = "disconnected"
    /\ h_child = NoId
    /\ h_alive = {}
    /\ h_events = <<>>
    /\ h_conn = [c \in Conns |-> ConnFree]
    /\ h_reader = [c \in Conns |-> "idle"]
    /\ client = [c \in Conns |-> [status |-> "disconnected", seen |-> 0]]

\* a host that has nft
\* an empty log file that neither reader has read from
LogsNew ==
    /\ log_file = <<>>
    /\ pos = 0 /\ carry = <<>> /\ tailer_log = <<>>
    /\ OPENVPN_LOG_POS = 0 /\ macos_log = <<>>

\* the threads that call linux_killswitch_apply: the tailer, vpn_disconnect,
\* killswitch_set and the watchdog's abort
Appliers == {"tailer", "vpn_disconnect", "killswitch_set", "watchdog"}
NotApplying == [pc |-> "idle", k |-> 0, ip |-> NoIp, allow |-> FALSE]
NoApplication == applying = [a \in Appliers |-> NotApplying]

Init ==
    /\ VpnStateNew
    /\ has_nft = TRUE
    /\ HelperMain
    /\ LogsNew
    /\ NoApplication

\* ------------------------------------------------------------- helpers

\* set_status: store the status under the lock
set_status(s) == status' = s

session_is_active(sid) == session_id = sid

unix_pid_alive(p) == p \in alive

\* ----------------------------------------------------- the firewall engine
\* A rule matches on the output interface, the connection state, the
\* destination address, the transport and the destination port ("any" and 0
\* match everything) and accepts or drops.
Rule(verdict, oif, ct, daddr, proto, dport) ==
    [verdict |-> verdict, oif |-> oif, ct |-> ct, daddr |-> daddr,
     proto |-> proto, dport |-> dport]
AcceptLoopback == Rule("accept", "lo", "any", "any", "any", 0)
AcceptEstablished == Rule("accept", "any", "established,related", "any", "any", 0)
AcceptTunnel(ifname) == Rule("accept", ifname, "any", "any", "any", 0)
AcceptTo(daddr, proto, dport) == Rule("accept", "any", "any", daddr, proto, dport)
DropAll == Rule("drop", "any", "any", "any", "any", 0)

TUN_IFNAME == "tun-stellar"
DNS_PORT == 53

\* linux_nameservers: the nameserver lines of /etc/resolv.conf
linux_nameservers == <<"192.0.2.53">>

\* nft delete table / add table / add chain / flush chain / add rule
NftDeleteTable(t) == FwAbsent
NftAddTable(t) == IF t.table THEN t ELSE [FwAbsent EXCEPT !.table = TRUE]
NftAddChain(t, policy) == [t EXCEPT !.hooks = 1, !.policy = policy]
NftFlushChain(t) == [t EXCEPT !.rules = <<>>]
AddRule(t, r) == [t EXCEPT !.rules = Append(@, r)]

RECURSIVE AddRules(_, _)
AddRules(t, rs) == IF rs = <<>> THEN t ELSE AddRules(AddRule(t, Head(rs)), Tail(rs))

\* iptables -D OUTPUT -j chain, -F chain, -X chain (a chain still referenced
\* from OUTPUT is not deleted)
IptablesCleanup(t) ==
    IF ~t.table THEN t
    ELSE IF t.hooks <= 1 THEN FwAbsent
         ELSE [t EXCEPT !.hooks = @ - 1, !.rules = <<>>]

\* iptables -N chain, -I OUTPUT 1 -j chain
IptablesNewChain(t) == [t EXCEPT !.table = TRUE, !.policy = "return", !.hooks = @ + 1]

\* what linux_killswitch_disable leaves when its commands succeed
KillswitchRemoved(t) == IF has_nft THEN NftDeleteTable(t) ELSE IptablesCleanup(t)

\* the accept rules for DNS to the resolvers, udp then tcp for each
RECURSIVE DnsRules(_)
DnsRules(nss) ==
    IF nss = <<>> THEN <<>>
    ELSE <<AcceptTo(Head(nss), "udp", DNS_PORT), AcceptTo(Head(nss), "tcp", DNS_PORT)>>
         \o DnsRules(Tail(nss))

\* the rule for the VPN endpoint: the known address, else any destination when
\* allowed, else none
EndpointRules(proto, port, remote_ip, allow_any_remote) ==
    IF remote_ip # NoIp THEN <<AcceptTo(remote_ip, proto, port)>>
    ELSE IF allow_any_remote THEN <<AcceptTo("any", proto, port)>>
    ELSE <<>>

\* linux_killswitch_apply_nft without the delete of the old table
linux_killswitch_apply_nft_KeepsOldTable(t, proto, port, remote_ip, allow_any_remote) ==
    AddRules(NftAddChain(NftAddTable(t), "drop"),
             <<AcceptLoopback, AcceptEstablished, AcceptTunnel(TUN_IFNAME)>>
             \o DnsRules(linux_nameservers)
             \o EndpointRules(proto, port, remote_ip, allow_any_remote))

\* linux_killswitch_apply_nft with every command succeeding
linux_killswitch_apply_nft(t, proto, port, remote_ip, allow_any_remote) ==
    AddRules(NftAddChain(NftAddTable(KillswitchRemoved(t)), "drop"),
             <<AcceptLoopback, AcceptEstablished, AcceptTunnel(TUN_IFNAME)>>
             \o DnsRules(linux_nameservers)
             \o EndpointRules(proto, port, remote_ip, allow_any_remote))

\* linux_killswitch_apply_iptables with every command succeeding
linux_killswitch_apply_iptables(t, proto, port, remote_ip, allow_any_remote) ==
    AddRules(IptablesNewChain(KillswitchRemoved(t)),
             <<AcceptLoopback, AcceptEstablished, AcceptTunnel(TUN_IFNAME)>>
             \o DnsRules(linux_nameservers)
             \o EndpointRules(proto, port, remote_ip, allow_any_remote)
             \o <<DropAll>>)

\* the transport and port of the profile the supervisor connects with; they
\* are also the values VpnState::new remembers
last_proto == "udp"
last_port == 1194

KillswitchApplied(t, remote_ip, allow_any_remote) ==
    IF has_nft
    THEN linux_killswitch_apply_nft(t, last_proto, last_port, remote_ip, allow_any_remote)
    ELSE linux_killswitch_apply_iptables(t, last_proto, last_port, remote_ip,
                                         allow_any_remote)

\* linux_killswitch_apply, run as root: remember the endpoint, delete the old
\* table, install the new rules. ok = FALSE is a firewall command failing after
\* the old table was deleted.
linux_killswitch_apply(remote_ip, allow_any_remote, ok) ==
    /\ last_remote_ip' = IF remote_ip # NoIp THEN remote_ip ELSE last_remote_ip
    /\ fw' = IF ok THEN KillswitchApplied(fw, remote_ip, allow_any_remote)
             ELSE FwAbsent

\* linux_killswitch_disable: the results of its commands are discarded;
\* deleted = FALSE is the delete command failing
linux_killswitch_disable(deleted) ==
    fw' = IF deleted THEN KillswitchRemoved(fw) ELSE fw

StartTailer(s) ==
    tailer' = [tailer EXCEPT ![s] = [TailerIdle EXCEPT !.pc = "check"]]

StartWatchdog(s) ==
    watchdog' = [watchdog EXCEPT ![s] =
                    [WatchdogIdle EXCEPT !.pc = "check",
                                         !.deadline = now + CONNECT_STUCK_SECS * 1000,
                                         !.wake = now + WATCHDOG_POLL_MS]]

\* ------------------------------------------------- main: setup closure

\* load_prefs into the state, then recover_on_startup: no session file
SetupNoSession(ksChoices, crChoices) ==
    /\ main_pc = "setup"
    /\ session_file = NoRec
    /\ \E ks \in ksChoices, cr \in crChoices :
         /\ killswitch_enabled' = ks
         /\ crash_recovery_enabled' = cr
    /\ main_pc' = "running"
    /\ Continues
    /\ UNCHANGED <<process, pid, status, paths, session_id, last_remote_ip,
                   last_log_at_ms, world, conn, disc, tailer, watchdog, watcher>>
    /\ UNCHANGED outside

\* SetupStaleSession leaving the record where it is
SetupStaleSession_KeepsRecord(ksChoices, crChoices) ==
    /\ main_pc = "setup"
    /\ session_file # NoRec
    /\ ~unix_pid_alive(session_file.pid)
    /\ \E ks \in ksChoices, cr \in crChoices :
         /\ killswitch_enabled' = ks
         /\ crash_recovery_enabled' = cr
    /\ main_pc' = "running"
    /\ Continues
    /\ UNCHANGED <<process, pid, status, paths, session_id, last_remote_ip,
                   last_log_at_ms, world, conn, disc, tailer, watchdog, watcher>>
    /\ UNCHANGED outside

\* recover_on_startup: the recorded pid is dead, the record is discarded
SetupStaleSession(ksChoices, crChoices) ==
    /\ main_pc = "setup"
    /\ session_file # NoRec
    /\ ~unix_pid_alive(session_file.pid)
    /\ \E ks \in ksChoices, cr \in crChoices :
         /\ killswitch_enabled' = ks
         /\ crash_recovery_enabled' = cr
    /\ session_file' = NoRec
    /\ main_pc' = "running"
    /\ Continues
    /\ UNCHANGED <<process, pid, status, paths, session_id, last_remote_ip,
                   last_log_at_ms, now, alive, auth_files, fw, lines_read, fatal_logged,
                   conn, disc, tailer, watchdog, watcher>>
    /\ UNCHANGED outside

\* recover_on_startup: the recorded pid is alive, the session is adopted
SetupRecover ==
    /\ main_pc = "setup"
    /\ session_file # NoRec
    /\ unix_pid_alive(session_file.pid)
    /\ process' = NoId
    /\ pid' = session_file.pid
    /\ log_path' = session_file.log
    /\ status_path' = session_file.log
    /\ pid_path' = session_file.log
    /\ status' = "connecting"
    /\ killswitch_enabled' = session_file.ks
    /\ crash_recovery_enabled' = TRUE
    /\ session_id' = session_id + 1
    /\ last_log_at_ms' = now
    /\ IF session_file.ks
       THEN \E ok \in BOOLEAN :
              linux_killswitch_apply(session_file.rip, session_file.rip = NoIp, ok)
       ELSE /\ last_remote_ip' = session_file.rip
            /\ fw' = fw
    /\ StartTailer(session_id + 1)
    /\ StartWatchdog(session_id + 1)
    /\ main_pc' = "running"
    /\ Continues
    /\ UNCHANGED <<auth_path, now, alive, files, lines_read, fatal_logged, conn, disc, watcher>>
    /\ UNCHANGED outside

\* ------------------------------------------------------------ vpn_connect

AlreadyRunning == process # NoId \/ (pid # NoId /\ unix_pid_alive(pid))

Inflight == {s \in Sessions : conn[s].pc # "idle"}

\* the commands that have begun and not returned
CommandsInProgress == Cardinality(Inflight) + (IF disc.pc = "idle" THEN 0 ELSE 1)

TaskSets == {s \in Sessions : tailer[s].pc # "idle" \/ conn[s].pc # "idle"}

\* "VPN already running": the call returns Err from inside the first lock
VpnConnectReject(maxCommands) ==
    /\ main_pc = "running"
    /\ CommandsInProgress < maxCommands
    /\ AlreadyRunning
    /\ Returns("vpn_connect", 0, "already_running")
    /\ UNCHANGED <<inner, world, threads>>
    /\ UNCHANGED outside

\* vpn_connect without the "already running" test
VpnConnectAllocate_Unguarded(maxCommands, maxTaskSets) ==
    /\ main_pc = "running"
    /\ session_id < MaxSession
    /\ CommandsInProgress < maxCommands
    /\ Cardinality(TaskSets) < maxTaskSets
    /\ session_id' = session_id + 1
    /\ status' = "connecting"
    /\ auth_path' = NoId /\ log_path' = NoId /\ status_path' = NoId
    /\ pid_path' = NoId /\ pid' = NoId
    /\ last_log_at_ms' = now
    /\ conn' = [conn EXCEPT ![session_id + 1] = [ConnIdle EXCEPT !.pc = "prepare"]]
    /\ fatal_logged' = 0
    /\ Continues
    /\ UNCHANGED <<process, prefs, last_remote_ip, now, alive, files, fw, lines_read,
                   main_pc, disc, tailer, watchdog, watcher>>
    /\ UNCHANGED outside

\* the first lock: allocate the session and enter "connecting"
VpnConnectAllocate(maxCommands, maxTaskSets) ==
    /\ main_pc = "running"
    /\ ~AlreadyRunning
    /\ session_id < MaxSession
    /\ CommandsInProgress < maxCommands
    /\ Cardinality(TaskSets) < maxTaskSets
    /\ session_id' = session_id + 1
    /\ status' = "connecting"
    /\ auth_path' = NoId /\ log_path' = NoId /\ status_path' = NoId
    /\ pid_path' = NoId /\ pid' = NoId
    /\ last_log_at_ms' = now
    /\ conn' = [conn EXCEPT ![session_id + 1] = [ConnIdle EXCEPT !.pc = "prepare"]]
    /\ fatal_logged' = 0
    /\ Continues
    /\ UNCHANGED <<process, prefs, last_remote_ip, now, alive, files, fw, lines_read,
                   main_pc, disc, tailer, watchdog, watcher>>
    /\ UNCHANGED outside

PrepareOutcomes == {"download_failed", "config_missing", "no_openvpn",
                    "auth_file_failed", "runtime_files_failed",
                    "killswitch_failed", "ok"}

\* resolve the config, locate the engine, seed the remote address, write the
\* credential file and the runtime files, apply the kill switch when enabled
\* ("Apply kill switch BEFORE connect")
VpnConnectPrepare(s, credChoices, seedChoices) ==
    /\ conn[s].pc = "prepare"
    /\ \E outcome \in PrepareOutcomes, creds \in credChoices, seeded \in seedChoices :
         /\ outcome = "killswitch_failed" => killswitch_enabled
         /\ IF outcome = "config_missing"
            THEN set_status("disconnected")
            ELSE UNCHANGED status
         /\ auth_files' = IF outcome \in {"runtime_files_failed", "killswitch_failed", "ok"}
                             /\ creds
                          THEN auth_files \cup {s} ELSE auth_files
         /\ IF outcome \in {"killswitch_failed", "ok"} /\ killswitch_enabled
            THEN linux_killswitch_apply(seeded, seeded = NoIp, outcome = "ok")
            ELSE UNCHANGED <<last_remote_ip, fw>>
         /\ IF outcome = "ok"
            THEN /\ conn' = [conn EXCEPT ![s] =
                               [ConnIdle EXCEPT !.pc = "spawn", !.auth = creds,
                                                !.seeded = seeded]]
                 /\ Continues
            ELSE /\ conn' = [conn EXCEPT ![s] = ConnIdle]
                 /\ Returns("vpn_connect", s, outcome)
    /\ UNCHANGED <<process, pid, paths, session_id, prefs, last_log_at_ms,
                   now, alive, session_file, lines_read, fatal_logged,
                   main_pc, disc, tailer, watchdog, watcher>>
    /\ UNCHANGED outside

\* cmd.spawn(), the pid-file read loop and the crash_recovery_enabled read
VpnConnectSpawn(s, pidChoices) ==
    /\ conn[s].pc = "spawn"
    /\ \E ok \in BOOLEAN, pid_read \in pidChoices :
         IF ok
         THEN /\ alive' = alive \cup {s}
              /\ conn' = [conn EXCEPT ![s] =
                            [@ EXCEPT !.pc = "store", !.cr = crash_recovery_enabled,
                                      !.pid = IF pid_read THEN s ELSE NoId]]
              /\ Continues
              /\ UNCHANGED auth_files
         ELSE /\ auth_files' = auth_files \ {s}
              /\ conn' = [conn EXCEPT ![s] = ConnIdle]
              /\ Returns("vpn_connect", s, "spawn_failed")
              /\ UNCHANGED alive
    /\ UNCHANGED <<inner, now, session_file, fw, lines_read, fatal_logged,
                   main_pc, disc, tailer, watchdog, watcher>>
    /\ UNCHANGED outside

\* the second lock: store the child handle and the artifacts
VpnConnectStore(s) ==
    /\ conn[s].pc = "store"
    /\ process' = s
    /\ auth_path' = IF conn[s].auth THEN s ELSE NoId
    /\ log_path' = s /\ status_path' = s /\ pid_path' = s
    /\ pid' = conn[s].pid
    /\ last_remote_ip' = conn[s].seeded
    /\ conn' = [conn EXCEPT ![s].pc = "finish"]
    /\ Continues
    /\ UNCHANGED <<status, session_id, prefs, last_log_at_ms, world,
                   main_pc, disc, tailer, watchdog, watcher>>
    /\ UNCHANGED outside

\* persist the session record, start the tailer, the watchdog and the exit
\* watcher, return Ok
VpnConnectFinish(s) ==
    /\ conn[s].pc = "finish"
    /\ session_file' = IF conn[s].cr
                       THEN IF conn[s].pid # NoId
                            THEN [pid |-> conn[s].pid, log |-> s,
                                  rip |-> conn[s].seeded, ks |-> killswitch_enabled]
                            ELSE session_file
                       ELSE NoRec
    /\ StartTailer(s)
    /\ StartWatchdog(s)
    /\ watcher' = [watcher EXCEPT ![s] = "poll"]
    /\ conn' = [conn EXCEPT ![s] = ConnIdle]
    /\ Returns("vpn_connect", s, "ok")
    /\ UNCHANGED <<inner, now, alive, auth_files, fw, lines_read, fatal_logged, main_pc, disc>>
    /\ UNCHANGED outside

\* ---------------------------------------------------------- vpn_disconnect

\* VpnDisconnectLock going back to the session id before
VpnDisconnectLock_StepsBack(maxCommands) ==
    /\ main_pc = "running"
    /\ disc.pc = "idle"
    /\ CommandsInProgress < maxCommands
    /\ session_id < MaxSession
    /\ session_id' = session_id - 1
    /\ disc' = [pc |-> "cleanup", sid |-> session_id, child |-> process,
                auth |-> auth_path, pid |-> pid,
                ks_on |-> killswitch_enabled, rip |-> last_remote_ip]
    /\ process' = NoId /\ auth_path' = NoId /\ pid_path' = NoId /\ pid' = NoId
    /\ status' = "disconnected"
    /\ log_path' = NoId /\ status_path' = NoId
    /\ Continues
    /\ UNCHANGED <<prefs, last_remote_ip, last_log_at_ms, world,
                   main_pc, conn, tailer, watchdog, watcher>>
    /\ UNCHANGED outside

\* the lock: advance the session, take the handles, store "disconnected"
VpnDisconnectLock(maxCommands) ==
    /\ main_pc = "running"
    /\ disc.pc = "idle"
    /\ CommandsInProgress < maxCommands
    /\ session_id < MaxSession
    /\ session_id' = session_id + 1
    /\ disc' = [pc |-> "cleanup", sid |-> session_id, child |-> process,
                auth |-> auth_path, pid |-> pid,
                ks_on |-> killswitch_enabled, rip |-> last_remote_ip]
    /\ process' = NoId /\ auth_path' = NoId /\ pid_path' = NoId /\ pid' = NoId
    /\ status' = "disconnected"
    /\ log_path' = NoId /\ status_path' = NoId
    /\ Continues
    /\ UNCHANGED <<prefs, last_remote_ip, last_log_at_ms, world,
                   main_pc, conn, tailer, watchdog, watcher>>
    /\ UNCHANGED outside

\* kill and reap the child, kill -TERM the pid, remove the credential file, the
\* pid file and session.json, then set_status(disconnected)
VpnDisconnectCleanup ==
    /\ disc.pc = "cleanup"
    /\ alive' = alive \ {disc.child, disc.pid}
    /\ auth_files' = auth_files \ {disc.auth}
    /\ session_file' = NoRec
    /\ set_status("disconnected")
    /\ disc' = [disc EXCEPT !.pc = "fw"]
    /\ Continues
    /\ UNCHANGED <<process, pid, paths, session_id, prefs, last_remote_ip,
                   last_log_at_ms, now, fw, lines_read, fatal_logged,
                   main_pc, conn, tailer, watchdog, watcher>>
    /\ UNCHANGED outside

\* vpn_disconnect deleting the table whatever the preference is
VpnDisconnectFirewall_AlwaysRemoves ==
    /\ disc.pc = "fw"
    /\ \E deleted \in BOOLEAN : linux_killswitch_disable(deleted)
    /\ Returns("vpn_disconnect", 0, "ok")
    /\ UNCHANGED last_remote_ip
    /\ disc' = DiscIdle
    /\ UNCHANGED <<process, pid, status, paths, session_id, prefs, last_log_at_ms,
                   now, alive, files, lines_read, fatal_logged,
                   main_pc, conn, tailer, watchdog, watcher>>
    /\ UNCHANGED outside

\* keep the kill switch active when enabled, else delete the table; return
VpnDisconnectFirewall ==
    /\ disc.pc = "fw"
    /\ IF disc.ks_on
       THEN \E ok \in BOOLEAN :
              /\ linux_killswitch_apply(disc.rip, disc.rip = NoIp, ok)
              /\ Returns("vpn_disconnect", 0, IF ok THEN "ok" ELSE "killswitch_failed")
       ELSE /\ \E deleted \in BOOLEAN : linux_killswitch_disable(deleted)
            /\ Returns("vpn_disconnect", 0, "ok")
            /\ UNCHANGED last_remote_ip
    /\ disc' = DiscIdle
    /\ UNCHANGED <<process, pid, status, paths, session_id, prefs, last_log_at_ms,
                   now, alive, files, lines_read, fatal_logged,
                   main_pc, conn, tailer, watchdog, watcher>>
    /\ UNCHANGED outside

\* ----------------------------------------------------------- killswitch_set

\* what killswitch_set(enabled = true) finds out about the endpoint: no
\* config_path (the remembered address is used), a config_path that does not
\* exist (nothing is seeded), or a config whose first remote is resolved
KillswitchConfigs == {"none", "missing", "given"}

\* killswitch_set: store the preference and save it, then remove the table
\* (enabled = false) or apply the baseline ruleset (enabled = true)
KillswitchSet(maxCommands, enabled, seedChoices) ==
    /\ main_pc = "running"
    /\ CommandsInProgress < maxCommands
    /\ killswitch_enabled' = enabled
    /\ IF ~enabled
       THEN /\ \E deleted \in BOOLEAN : linux_killswitch_disable(deleted)
            /\ Returns("killswitch_set", 0, "disabled")
            /\ UNCHANGED last_remote_ip
       ELSE \E cfg \in KillswitchConfigs \cup {"download_failed"},
               resolved \in seedChoices, ok \in BOOLEAN :
              IF cfg = "download_failed"
              THEN /\ Returns("killswitch_set", 0, cfg)
                   /\ UNCHANGED <<last_remote_ip, fw>>
              ELSE LET seeded_remote_ip ==
                         CASE cfg = "none" -> last_remote_ip
                           [] cfg = "missing" -> NoIp
                           [] cfg = "given" -> resolved
                   IN  /\ linux_killswitch_apply(seeded_remote_ip,
                                                 seeded_remote_ip = NoIp, ok)
                       /\ Returns("killswitch_set", 0,
                                  IF ok THEN "enabled" ELSE "killswitch_failed")
    /\ UNCHANGED <<process, pid, status, paths, session_id, crash_recovery_enabled,
                   last_log_at_ms, now, alive, files, lines_read, fatal_logged,
                   threads>>
    /\ UNCHANGED outside

\* ------------------------------- stellar-vpn-helper killswitch (the Linux CLI)

\* a config file is its lines, a line its whitespace-separated words
ExampleConfig == << <<"remote", "vpn.example.com", "1194", "udp">> >>
TcpConfig == << <<"client">>, <<>>, <<"proto", "TCP">>,
                <<"#", "remote", "old.example.com", "1194">>,
                <<"remote", "198.51.100.9", "443">>,
                <<"remote", "nowhere.example.com">> >>
NoRemoteConfig == << <<"client">>, <<"proto", "udp">> >>
\* a remote that names its own transport under another global proto
MixedConfig == << <<"proto", "udp">>, <<"remote", "vpn.example.com", "443", "tcp">> >>
HelperConfigs == {ExampleConfig, TcpConfig, NoRemoteConfig, MixedConfig}

DEFAULT_PORT == 1194

\* str::parse::<u16> of a word, with the given fallback
ParsePort(word, fallback) ==
    CASE word = "1194" -> 1194
      [] word = "443" -> 443
      [] OTHER -> fallback

\* str::to_lowercase of a transport word
to_lowercase(word) ==
    CASE word = "TCP" -> "tcp"
      [] word = "UDP" -> "udp"
      [] OTHER -> word

\* a line that is empty or starts with # or ;
Skipped(line) == line = <<>> \/ Head(line) \in {"#", ";"}

\* parse_openvpn_remotes, first loop: the last proto directive, else udp
RECURSIVE GlobalProto(_, _)
GlobalProto(lines, proto) ==
    IF lines = <<>> THEN proto
    ELSE LET l == Head(lines)
         IN  GlobalProto(Tail(lines),
                         IF ~Skipped(l) /\ Head(l) = "proto" /\ Len(l) >= 2
                         THEN to_lowercase(l[2]) ELSE proto)

\* parse_openvpn_remotes, second loop: (host, port, proto) of every remote
RECURSIVE Remotes(_, _)
Remotes(lines, proto) ==
    IF lines = <<>> THEN <<>>
    ELSE LET l == Head(lines)
         IN  (IF ~Skipped(l) /\ Head(l) = "remote" /\ Len(l) >= 2
              THEN << [host |-> l[2],
                       port |-> IF Len(l) >= 3 THEN ParsePort(l[3], DEFAULT_PORT)
                                ELSE DEFAULT_PORT,
                       proto |-> proto] >>
              ELSE <<>>) \o Remotes(Tail(lines), proto)

parse_openvpn_remotes(config_text) == Remotes(config_text, GlobalProto(config_text, "udp"))

is_ip_literal(host) == host \in {"198.51.100.9"}

\* resolve_host: the addresses the name resolves to
resolve_host(host) ==
    CASE host = "vpn.example.com" -> <<"203.0.113.7">>
      [] host = "old.example.com" -> <<"203.0.113.8", "203.0.113.9">>
      [] OTHER -> <<>>

contains_tcp(proto) == proto \in {"tcp", "tcp-client", "tcp4"}

RECURSIVE AddressRules(_, _, _)
AddressRules(ips, transport, port) ==
    IF ips = <<>> THEN <<>>
    ELSE <<AcceptTo(Head(ips), transport, port)>> \o AddressRules(Tail(ips), transport, port)

\* build_script: the rules for one remote
RemoteRules(r) ==
    LET transport == IF contains_tcp(r.proto) THEN "tcp" ELSE "udp"
    IN  IF is_ip_literal(r.host) THEN <<AcceptTo(r.host, transport, r.port)>>
        ELSE IF resolve_host(r.host) = <<>> THEN <<AcceptTo("any", transport, r.port)>>
        ELSE AddressRules(resolve_host(r.host), transport, r.port)

RECURSIVE AllRemoteRules(_)
AllRemoteRules(remotes) ==
    IF remotes = <<>> THEN <<>>
    ELSE RemoteRules(Head(remotes)) \o AllRemoteRules(Tail(remotes))

HELPER_TUN_IFNAMES == "tun,tun0..tun9,tap0..tap9"

\* build_script: the rules of the script, in order (Err when no remote was
\* allowed is the empty sequence)
build_script(remotes) ==
    IF remotes = <<>> THEN <<>>
    ELSE <<AcceptLoopback, AcceptEstablished, AcceptTunnel(HELPER_TUN_IFNAMES),
           AcceptTo("any", "udp", DNS_PORT), AcceptTo("any", "tcp", DNS_PORT)>>
         \o AllRemoteRules(remotes) \o <<DropAll>>

\* run_nft_script: add table, add chain with policy accept, flush chain, then
\* the rules, as one nft transaction
run_nft_script(t, rules) ==
    AddRules(NftFlushChain(NftAddChain(NftAddTable(t), "accept")), rules)

\* killswitch disable: nft_delete_table_strict; a missing table counts as
\* deleted, any other failure ends the helper with an error
HelperKillswitchDisable ==
    /\ \E deleted \in BOOLEAN :
         IF has_nft /\ (deleted \/ ~fw.table)
         THEN /\ fw' = NftDeleteTable(fw)
              /\ Returns("helper_disable", 0, "ok")
         ELSE /\ UNCHANGED fw
              /\ Returns("helper_disable", 0, "delete_failed")
    /\ UNCHANGED <<inner, now, alive, files, lines_read, fatal_logged, threads>>
    /\ UNCHANGED outside

\* killswitch enable --config: parse the remotes, delete the old table
\* strictly, build the script and run it
HelperKillswitchEnable(config_text) ==
    /\ LET remotes == parse_openvpn_remotes(config_text)
       IN  \E deleted \in BOOLEAN, ok \in BOOLEAN :
             IF remotes = <<>>
             THEN /\ UNCHANGED fw
                  /\ Returns("helper_enable", 0, "no_remotes")
             ELSE IF ~(has_nft /\ (deleted \/ ~fw.table))
             THEN /\ UNCHANGED fw
                  /\ Returns("helper_enable", 0, "delete_failed")
             ELSE IF ~ok
             THEN /\ fw' = NftDeleteTable(fw)
                  /\ Returns("helper_enable", 0, "nft_failed")
             ELSE /\ fw' = run_nft_script(NftDeleteTable(fw), build_script(remotes))
                  /\ Returns("helper_enable", 0, "ok")
    /\ UNCHANGED <<inner, now, alive, files, lines_read, fatal_logged, threads>>
    /\ UNCHANGED outside

\* ------------------------------------------------- start_log_file_tailer
\* A thread that finds its session superseded returns. A session id never comes
\* back, so the return is modelled by the thread staying at its session check
\* for ever: TailerReturned and WatchdogReturned say that it has returned.

\* where the body of `for line in lines` goes next
AfterInit(line) == IF "auth" \in line THEN "auth" ELSE "check"
AfterRemote(line) == IF "init" \in line THEN "init" ELSE AfterInit(line)
AfterLineCheck(line, tightened) ==
    IF "remote" \in line /\ ~tightened THEN "learn" ELSE AfterRemote(line)

TailerGoes(s, pc, tightened) ==
    tailer' = [tailer EXCEPT ![s] =
                 [pc |-> pc, line |-> IF pc = "check" THEN NoLine ELSE @.line,
                  tightened |-> tightened]]

TailerReturned(s) == tailer[s].pc = "check" /\ ~session_is_active(s)

\* top of the loop: the session is still the current one
TailerCheck(s) ==
    /\ tailer[s].pc = "check"
    /\ session_is_active(s)
    /\ TailerGoes(s, "read", tailer[s].tightened)
    /\ Continues
    /\ UNCHANGED <<inner, world, main_pc, conn, disc, watchdog, watcher>>
    /\ UNCHANGED outside

\* read from pos to the end of the log file: nothing new, sleep and loop
TailerReadNothing(s) ==
    /\ tailer[s].pc = "read"
    /\ TailerGoes(s, "check", tailer[s].tightened)
    /\ Continues
    /\ UNCHANGED <<inner, world, main_pc, conn, disc, watchdog, watcher>>
    /\ UNCHANGED outside

\* read from pos to the end of the log file: a new line, progress is marked
TailerRead(s, lines) ==
    /\ tailer[s].pc = "read"
    /\ lines_read < MaxLines
    /\ \E line \in lines :
         tailer' = [tailer EXCEPT ![s] = [@ EXCEPT !.pc = "line_check", !.line = line]]
    /\ lines_read' = lines_read + 1
    /\ last_log_at_ms' = now
    /\ Continues
    /\ UNCHANGED <<process, pid, status, paths, session_id, prefs, last_remote_ip,
                   now, alive, files, fw, fatal_logged,
                   main_pc, conn, disc, watchdog, watcher>>
    /\ UNCHANGED outside

\* the session check at the head of the line loop, then the vpn-log event
TailerLineCheck(s) ==
    /\ tailer[s].pc = "line_check"
    /\ TailerGoes(s, IF session_is_active(s)
                     THEN AfterLineCheck(tailer[s].line, tailer[s].tightened)
                     ELSE "check", tailer[s].tightened)
    /\ Continues
    /\ UNCHANGED <<inner, world, main_pc, conn, disc, watchdog, watcher>>
    /\ UNCHANGED outside

\* "link remote" line: store the learned address and, when the kill switch is
\* enabled, tighten it to that address (once)
TailerLearn(s) ==
    /\ tailer[s].pc = "learn"
    /\ IF killswitch_enabled
       THEN \E ok \in BOOLEAN : linux_killswitch_apply(LearnedIp, FALSE, ok)
       ELSE /\ last_remote_ip' = LearnedIp
            /\ UNCHANGED fw
    /\ TailerGoes(s, AfterRemote(tailer[s].line), killswitch_enabled)
    /\ Continues
    /\ UNCHANGED <<process, pid, status, paths, session_id, prefs, last_log_at_ms,
                   now, alive, files, lines_read, fatal_logged,
                   main_pc, conn, disc, watchdog, watcher>>
    /\ UNCHANGED outside

\* "Initialization Sequence Completed": set_status(connected), then re-apply
\* the kill switch with the remembered endpoint when enabled
TailerInit(s) ==
    /\ tailer[s].pc = "init"
    /\ set_status("connected")
    /\ IF killswitch_enabled
       THEN \E ok \in BOOLEAN : linux_killswitch_apply(last_remote_ip, FALSE, ok)
       ELSE UNCHANGED <<last_remote_ip, fw>>
    /\ TailerGoes(s, AfterInit(tailer[s].line), tailer[s].tightened)
    /\ Continues
    /\ UNCHANGED <<process, pid, paths, session_id, prefs, last_log_at_ms,
                   now, alive, files, lines_read, fatal_logged,
                   main_pc, conn, disc, watchdog, watcher>>
    /\ UNCHANGED outside

\* "AUTH_FAILED": emit "[fatal] AUTH_FAILED", set_status(disconnected)
TailerAuth(s) ==
    /\ tailer[s].pc = "auth"
    /\ fatal_logged' = s
    /\ set_status("disconnected")
    /\ TailerGoes(s, "check", tailer[s].tightened)
    /\ Continues
    /\ UNCHANGED <<process, pid, paths, session_id, prefs, last_remote_ip,
                   last_log_at_ms, now, alive, files, fw, lines_read,
                   main_pc, conn, disc, watchdog, watcher>>
    /\ UNCHANGED outside

\* ------------------------------------------------ start_connect_watchdog

WatchdogGoes(s, pc) ==
    watchdog' = [watchdog EXCEPT ![s] =
                   IF pc = "done" THEN [WatchdogIdle EXCEPT !.pc = "done"]
                   ELSE IF pc = "check"
                        THEN [@ EXCEPT !.pc = pc, !.wake = now + WATCHDOG_POLL_MS]
                        ELSE [@ EXCEPT !.pc = pc]]

WatchdogReturned(s) ==
    \/ watchdog[s].pc = "done"
    \/ watchdog[s].pc = "check" /\ ~session_is_active(s)

\* after the 250 ms sleep: the session is still the current one
WatchdogCheck(s) ==
    /\ watchdog[s].pc = "check"
    /\ now >= watchdog[s].wake
    /\ session_is_active(s)
    /\ WatchdogGoes(s, "poll")
    /\ Continues
    /\ UNCHANGED <<inner, world, main_pc, conn, disc, tailer, watcher>>
    /\ UNCHANGED outside

\* the poll without the deadline test
WatchdogPoll_GraceOnly(s) ==
    /\ watchdog[s].pc = "poll"
    /\ WatchdogGoes(s, IF status # "connecting" THEN "done"
                       ELSE IF now - last_log_at_ms >= CONNECT_STUCK_IDLE_GRACE_MS
                            THEN "abort"
                            ELSE "check")
    /\ Continues
    /\ UNCHANGED <<inner, world, main_pc, conn, disc, tailer, watcher>>
    /\ UNCHANGED outside

\* read (status, last_log_at_ms) under the lock, then decide
WatchdogPoll(s) ==
    /\ watchdog[s].pc = "poll"
    /\ WatchdogGoes(s, IF status # "connecting" THEN "done"
                       ELSE IF now < watchdog[s].deadline THEN "check"
                       ELSE IF now - last_log_at_ms >= CONNECT_STUCK_IDLE_GRACE_MS
                            THEN "abort"
                            ELSE "check")
    /\ Continues
    /\ UNCHANGED <<inner, world, main_pc, conn, disc, tailer, watcher>>
    /\ UNCHANGED outside

\* the abort storing the error text it emits instead of "disconnected"
WatchdogAbortLock_StoresError(s) ==
    /\ watchdog[s].pc = "abort"
    /\ session_id < MaxSession
    /\ session_id' = session_id + 1
    /\ watchdog' = [watchdog EXCEPT ![s] =
                       [@ EXCEPT !.pc = "cleanup", !.child = process, !.auth = auth_path,
                                 !.pid = pid, !.ks_on = killswitch_enabled,
                                 !.rip = last_remote_ip]]
    /\ process' = NoId /\ auth_path' = NoId /\ pid_path' = NoId /\ pid' = NoId
    /\ status' = "error"
    /\ Continues
    /\ UNCHANGED <<log_path, status_path, prefs, last_remote_ip, last_log_at_ms,
                   world, main_pc, conn, disc, tailer, watcher>>
    /\ UNCHANGED outside

\* watchdog_abort_connect: the error events, then the lock
WatchdogAbortLock(s) ==
    /\ watchdog[s].pc = "abort"
    /\ session_id < MaxSession
    /\ session_id' = session_id + 1
    /\ watchdog' = [watchdog EXCEPT ![s] =
                       [@ EXCEPT !.pc = "cleanup", !.child = process, !.auth = auth_path,
                                 !.pid = pid, !.ks_on = killswitch_enabled,
                                 !.rip = last_remote_ip]]
    /\ process' = NoId /\ auth_path' = NoId /\ pid_path' = NoId /\ pid' = NoId
    /\ status' = "disconnected"
    /\ Continues
    /\ UNCHANGED <<log_path, status_path, prefs, last_remote_ip, last_log_at_ms,
                   world, main_pc, conn, disc, tailer, watcher>>
    /\ UNCHANGED outside

\* watchdog_abort_connect: kill, remove the files, emit "disconnected", keep the
\* kill switch active when it was enabled
WatchdogAbortCleanup(s) ==
    /\ watchdog[s].pc = "cleanup"
    /\ alive' = alive \ {watchdog[s].child, watchdog[s].pid}
    /\ auth_files' = auth_files \ {watchdog[s].auth}
    /\ session_file' = NoRec
    /\ IF watchdog[s].ks_on
       THEN \E ok \in BOOLEAN :
              linux_killswitch_apply(watchdog[s].rip, watchdog[s].rip = NoIp, ok)
       ELSE UNCHANGED <<last_remote_ip, fw>>
    /\ WatchdogGoes(s, "done")
    /\ Continues
    /\ UNCHANGED <<process, pid, status, paths, session_id, prefs, last_log_at_ms,
                   now, lines_read, fatal_logged, main_pc, conn, disc, tailer, watcher>>
    /\ UNCHANGED outside

\* ------------------------------------- vpn_connect: the exit watcher thread

\* the thread leaves its loop when the session is superseded or the handle is
\* gone; neither changes the state
WatcherReturned(s) ==
    \/ watcher[s] = "done"
    \/ watcher[s] = "poll" /\ (~session_is_active(s) \/ process = NoId)

\* try_wait() = Ok(Some(_)): the subprocess has exited
WatcherExited(s) ==
    /\ watcher[s] = "poll"
    /\ session_id = s /\ process # NoId
    /\ process \notin alive
    /\ process' = NoId /\ pid' = NoId
    /\ status' = "disconnected"
    /\ watcher' = [watcher EXCEPT ![s] = "done"]
    /\ Continues
    /\ UNCHANGED <<paths, session_id, prefs, last_remote_ip, last_log_at_ms,
                   world, main_pc, conn, disc, tailer, watchdog>>
    /\ UNCHANGED outside

\* try_wait() = Err(e): the status becomes the error text
WatcherPollFailed(s) ==
    /\ watcher[s] = "poll"
    /\ session_id = s /\ process # NoId
    /\ process' = NoId /\ pid' = NoId
    /\ status' = "error"
    /\ watcher' = [watcher EXCEPT ![s] = "done"]
    /\ Continues
    /\ UNCHANGED <<paths, session_id, prefs, last_remote_ip, last_log_at_ms,
                   world, main_pc, conn, disc, tailer, watchdog>>
    /\ UNCHANGED outside

\* ------------------------------------------------------------ environment

\* a running subprocess exits on its own
ChildExit(k) ==
    /\ k \in alive
    /\ k \in {process, pid}
    /\ alive' = alive \ {k}
    /\ Continues
    /\ UNCHANGED <<inner, now, files, fw, lines_read, fatal_logged, threads>>
    /\ UNCHANGED outside

\* the clock advances
Tick(d) ==
    /\ now + d <= MaxTime
    /\ now' = now + d
    /\ Continues
    /\ UNCHANGED <<inner, alive, files, fw, lines_read, fatal_logged, threads>>
    /\ UNCHANGED outside

Min(a, b) == IF a <= b THEN a ELSE b
Max(a, b) == IF a >= b THEN a ELSE b

\* the watchdogs that are asleep and will poll again
Sleeping == {s \in Sessions : watchdog[s].pc = "check" /\ session_is_active(s)}

RECURSIVE EarliestWake(_, _)
EarliestWake(S, t) ==
    IF S = {} THEN t
    ELSE LET s == CHOOSE x \in S : TRUE
         IN  EarliestWake(S \ {s}, Min(t, watchdog[s].wake))

\* the clock advances by at most d while a watchdog is asleep; the watchdog
\* wakes when its sleep is over and the steps of one iteration take no time
TimedTick(d) ==
    /\ now < MaxTimed
    /\ Sleeping # {}
    /\ \A s \in Sessions : watchdog[s].pc \notin {"poll", "abort", "cleanup"}
    /\ \A s \in Sleeping : now < watchdog[s].wake
    /\ now' = EarliestWake(Sleeping, Min(now + d, MaxTimed))
    /\ Continues
    /\ UNCHANGED <<inner, alive, files, fw, lines_read, fatal_logged, threads>>
    /\ UNCHANGED outside

\* ------------------------------------------------------------ specification

SpecLines == {{"remote"}, {"init"}, {"auth"}}

Next ==
    \/ SetupNoSession(BOOLEAN, BOOLEAN) \/ SetupStaleSession(BOOLEAN, BOOLEAN)
    \/ SetupRecover
    \/ VpnConnectReject(MaxCommands) \/ VpnConnectAllocate(MaxCommands, MaxTaskSets)
    \/ \E s \in Sessions :
         \/ VpnConnectPrepare(s, BOOLEAN, {NoIp, SeededIp})
         \/ VpnConnectSpawn(s, BOOLEAN)
         \/ VpnConnectStore(s) \/ VpnConnectFinish(s)
    \/ VpnDisconnectLock(MaxCommands) \/ VpnDisconnectCleanup \/ VpnDisconnectFirewall
    \/ \E s \in Sessions :
         \/ TailerCheck(s) \/ TailerReadNothing(s) \/ TailerRead(s, SpecLines)
         \/ TailerLineCheck(s) \/ TailerLearn(s) \/ TailerInit(s) \/ TailerAuth(s)
    \/ \E s \in Sessions :
         \/ WatchdogCheck(s) \/ WatchdogPoll(s) \/ WatchdogAbortLock(s)
         \/ WatchdogAbortCleanup(s)
    \/ \E s \in Sessions :
         \/ WatcherExited(s) \/ WatcherPollFailed(s)
    \/ \E k \in ChildIds : ChildExit(k)
    \/ Tick(CoarseTickMs)

Spec == Init /\ [][Next]_vars

\* one command at a time, two sessions with background threads, the kill switch
\* off and no "link remote" line in the log
TwoLines == {{"init"}, {"auth"}}

NextTwo ==
    \/ SetupNoSession({FALSE}, {TRUE}) \/ SetupStaleSession({FALSE}, {TRUE})
    \/ SetupRecover
    \/ VpnConnectReject(MaxCommands) \/ VpnConnectAllocate(MaxCommands, TwoTaskSets)
    \/ \E s \in Sessions :
         \/ VpnConnectPrepare(s, {TRUE}, {SeededIp})
         \/ VpnConnectSpawn(s, {TRUE})
         \/ VpnConnectStore(s) \/ VpnConnectFinish(s)
    \/ VpnDisconnectLock(MaxCommands) \/ VpnDisconnectCleanup \/ VpnDisconnectFirewall
    \/ \E s \in Sessions :
         \/ TailerCheck(s) \/ TailerReadNothing(s) \/ TailerRead(s, TwoLines)
         \/ TailerLineCheck(s) \/ TailerInit(s) \/ TailerAuth(s)
    \/ \E s \in Sessions :
         \/ WatchdogCheck(s) \/ WatchdogPoll(s) \/ WatchdogAbortLock(s)
         \/ WatchdogAbortCleanup(s)
    \/ \E s \in Sessions :
         \/ WatcherExited(s) \/ WatcherPollFailed(s)
    \/ \E k \in ChildIds : ChildExit(k)
    \/ Tick(CoarseTickMs)

SpecTwo == Init /\ [][NextTwo]_vars

\* two vpn_connect calls in progress at the same time, without the tailer and
\* the watchdog
NextOverlap ==
    \/ SetupNoSession({FALSE}, {TRUE})
    \/ VpnConnectReject(OverlapCommands)
    \/ VpnConnectAllocate(OverlapCommands, TwoTaskSets)
    \/ \E s \in Sessions :
         \/ VpnConnectPrepare(s, {TRUE}, {SeededIp})
         \/ VpnConnectSpawn(s, BOOLEAN)
         \/ VpnConnectStore(s) \/ VpnConnectFinish(s)
    \/ \E s \in Sessions : WatcherExited(s) \/ WatcherPollFailed(s)
    \/ \E k \in ChildIds : ChildExit(k)

SpecOverlap == Init /\ [][NextOverlap]_vars

\* one session at a time under a fine clock; the log never carries a marker
TimedLines == {{}}

NextTimed ==
    \/ SetupNoSession({FALSE}, {TRUE}) \/ SetupStaleSession({FALSE}, {TRUE})
    \/ SetupRecover
    \/ VpnConnectAllocate(MaxCommands, MaxTaskSets)
    \/ \E s \in Sessions :
         \/ VpnConnectPrepare(s, {TRUE}, {SeededIp})
         \/ VpnConnectSpawn(s, {TRUE})
         \/ VpnConnectStore(s) \/ VpnConnectFinish(s)
    \/ \E s \in Sessions :
         \/ TailerCheck(s) \/ TailerReadNothing(s) \/ TailerRead(s, TimedLines)
         \/ TailerLineCheck(s)
    \/ \E s \in Sessions :
         \/ WatchdogCheck(s) \/ WatchdogPoll(s) \/ WatchdogAbortLock(s)
         \/ WatchdogAbortCleanup(s)
    \/ TimedTick(TimedTickMs)

SpecTimed == Init /\ [][NextTimed]_vars

\* the kill-switch commands: killswitch_set, vpn_disconnect without a session
\* and the helper's killswitch command, on hosts with and without nft
InitKs ==
    /\ VpnStateNew
    /\ has_nft \in BOOLEAN
    /\ HelperMain
    /\ LogsNew
    /\ NoApplication

NextKs ==
    \/ SetupNoSession(BOOLEAN, {TRUE}) \/ SetupStaleSession(BOOLEAN, {TRUE})
    \/ \E enabled \in BOOLEAN : KillswitchSet(MaxCommands, enabled, {NoIp, SeededIp})
    \/ HelperKillswitchDisable
    \/ \E config_text \in HelperConfigs : HelperKillswitchEnable(config_text)
    \/ VpnDisconnectLock(MaxCommands) \/ VpnDisconnectCleanup \/ VpnDisconnectFirewall

SpecKs == InitKs /\ [][NextKs]_vars

\* killswitch_set next to one session at a time
PrefLines == {{"remote"}, {"init"}}

NextPref ==
    \/ SetupNoSession(BOOLEAN, {TRUE}) \/ SetupStaleSession(BOOLEAN, {TRUE})
    \/ \E enabled \in BOOLEAN : KillswitchSet(MaxCommands, enabled, {SeededIp})
    \/ VpnConnectAllocate(MaxCommands, MaxTaskSets)
    \/ \E s \in Sessions :
         \/ VpnConnectPrepare(s, {FALSE}, {NoIp, SeededIp})
         \/ VpnConnectSpawn(s, {TRUE})
         \/ VpnConnectStore(s) \/ VpnConnectFinish(s)
    \/ VpnDisconnectLock(MaxCommands) \/ VpnDisconnectCleanup \/ VpnDisconnectFirewall
    \/ \E s \in Sessions :
         \/ TailerCheck(s) \/ TailerReadNothing(s) \/ TailerRead(s, PrefLines)
         \/ TailerLineCheck(s) \/ TailerLearn(s) \/ TailerInit(s)
    \/ \E s \in Sessions :
         \/ WatchdogCheck(s) \/ WatchdogPoll(s) \/ WatchdogAbortLock(s)
         \/ WatchdogAbortCleanup(s)
    \/ \E s \in Sessions : WatcherExited(s)
    \/ \E k \in ChildIds : ChildExit(k)
    \/ Tick(CoarseTickMs)

SpecPref == Init /\ [][NextPref]_vars

\* ================================================================== claims

\* the first step of a vpn_connect call
VpnConnectBegins ==
    VpnConnectReject(MaxCommands) \/ VpnConnectAllocate(MaxCommands, TwoTaskSets)

\* C1: a vpn_connect call that begins while the supervisor holds a subprocess
\* handle, or a recovered pid that is alive, returns the "already running"
\* error and leaves session_id, status, the handle, pid and the artifact paths
\* as they were.
C1_RejectLeavesSession ==
    [][(AlreadyRunning /\ VpnConnectBegins)
         => /\ ret'.cmd = "vpn_connect" /\ ret'.res = "already_running"
            /\ UNCHANGED <<session_id, status, process, pid, paths>>]_vars

\* a vpn_connect call has just been refused while a connected session holds
\* its subprocess
C1_Witness ==
    /\ ret.cmd = "vpn_connect" /\ ret.res = "already_running"
    /\ process # NoId /\ status = "connected"

\* a step of a background thread of session s
TailerStep(s) ==
    \/ TailerCheck(s) \/ TailerReadNothing(s) \/ TailerRead(s, SpecLines)
    \/ TailerLineCheck(s) \/ TailerLearn(s) \/ TailerInit(s) \/ TailerAuth(s)
WatchdogStep(s) ==
    \/ WatchdogCheck(s) \/ WatchdogPoll(s) \/ WatchdogAbortLock(s)
    \/ WatchdogAbortCleanup(s)
WatcherStep(s) == WatcherExited(s) \/ WatcherPollFailed(s)

\* C2: a step of a background thread started for session s leaves the stored
\* status, the subprocess handle and the firewall unchanged once session_id has
\* moved past s.
C2_StaleTaskWritesNothing ==
    [][\A s \in Sessions :
         (session_id > s /\ (TailerStep(s) \/ WatchdogStep(s) \/ WatcherStep(s)))
           => UNCHANGED <<status, process, fw>>]_vars

PreSpawnErrors == (PrepareOutcomes \ {"ok"}) \cup {"spawn_failed"}

\* C3: when vpn_connect returns an error of a step before a subprocess exists,
\* the stored status is "disconnected".
C3_FailedConnectIsDisconnected ==
    (ret.cmd = "vpn_connect" /\ ret.res \in PreSpawnErrors) => status = "disconnected"

Spawned(s) == conn[s].pc \in {"store", "finish"}

\* C4: of two vpn_connect calls in progress together, with consecutive session
\* ids (nothing moved the session between them), at most one has spawned a
\* subprocess.
C4_OneConnectSpawns ==
    \A s \in Sessions : (s + 1) \in Sessions => ~(Spawned(s) /\ Spawned(s + 1))

\* C5: when vpn_disconnect returns, the status is "disconnected", no handle, pid,
\* credential path or other artifact path is held (so a second call right after
\* ends with the same fields), the credential file it took is removed, and the
\* session id is greater than when it was called.
C5_DisconnectEndsSession ==
    [][VpnDisconnectFirewall
         => /\ status' = "disconnected"
            /\ process' = NoId /\ pid' = NoId
            /\ auth_path' = NoId /\ log_path' = NoId
            /\ status_path' = NoId /\ pid_path' = NoId
            /\ disc.auth \notin auth_files'
            /\ session_id' > disc.sid]_vars

\* vpn_status: the stored status string
vpn_status == status

C7_NoSkippedTransition ==
    [][/\ (status' = "connected" /\ status # "connected") => status = "connecting"
       /\ (status' = "connecting" /\ status # "connecting")
            => (VpnConnectAllocate(MaxCommands, MaxTaskSets) \/ SetupRecover)]_vars

\* C8: when the watchdog aborts, the deadline has passed and the last log bytes
\* were recorded at least the grace period ago.
C8_AbortsOnlyWhenStuck ==
    [][\A s \in Sessions :
         WatchdogAbortLock(s)
           => /\ now >= watchdog[s].deadline
              /\ now - last_log_at_ms >= CONNECT_STUCK_IDLE_GRACE_MS]_vars

\* the watchdog of the current session is armed and the session is connecting
Armed(s) ==
    /\ watchdog[s].pc \in {"check", "poll", "abort"}
    /\ session_is_active(s)
    /\ status = "connecting"

\* C9 as stated: a session that never logs the marker is no longer connecting
\* after deadline + grace + one poll interval, whatever it logs.
C9_AbortedByFixedTime ==
    \A s \in Sessions :
      Armed(s) => now <= watchdog[s].deadline + CONNECT_STUCK_IDLE_GRACE_MS
                                              + WATCHDOG_POLL_MS

\* C9: the watchdog does not abort before the deadline, and a session that never
\* logs the marker is no longer connecting one poll interval after the later
\* of the deadline and the last recorded log progress plus the grace period.
C9_AbortedAfterQuiet ==
    /\ [](\A s \in Sessions :
            Armed(s) => now <= Max(watchdog[s].deadline,
                                   last_log_at_ms + CONNECT_STUCK_IDLE_GRACE_MS)
                               + WATCHDOG_POLL_MS)
    /\ [][\A s \in Sessions :
            WatchdogAbortLock(s) => now >= watchdog[s].deadline]_vars

\* the watchdog has aborted a session that kept logging past the deadline
C9_Witness ==
    \E s \in Sessions :
      /\ watchdog[s].pc = "cleanup"
      /\ last_log_at_ms > watchdog[s].deadline
      /\ status = "disconnected"

\* C10: once the tailer of the current session has reported AUTH_FAILED, the
\* status is "disconnected" and stays so until a vpn_connect begins, and no
\* subprocess starts without one.
C10_AuthFailureIsFinal ==
    [][(fatal_logged # 0 /\ fatal_logged = session_id)
         => /\ status = "disconnected"
            /\ (status' = "disconnected"
                  \/ VpnConnectAllocate(MaxCommands, MaxTaskSets))
            /\ (alive' \subseteq alive
                  \/ \E s \in Sessions : VpnConnectSpawn(s, BOOLEAN))]_vars

\* a session that started its background threads and whose subprocess is gone
RanAndEnded(k) == tailer[k].pc # "idle" /\ k \notin alive

\* C11: when vpn_connect has allocated session s, no credential file written
\* for an earlier session that ran and ended (disconnect, watchdog abort, or
\* exit seen by the exit watcher) still exists, and the call gives its
\* subprocess only the credential file it wrote itself.
C11_CredentialFileEndsWithSession ==
    \A s \in Sessions :
      conn[s].pc # "idle"
        => /\ \A k \in Sessions : (k < s /\ RanAndEnded(k)) => k \notin auth_files
           /\ (conn[s].pc \in {"store", "finish"} /\ conn[s].auth) => s \in auth_files

\* the dedicated ruleset is in force: the table exists, is hooked into the
\* output path and drops what no rule accepts
DropsByDefault(t) ==
    \/ t.policy = "drop"
    \/ (t.rules # <<>> /\ t.rules[Len(t.rules)] = DropAll)
Installed(t) == t.table /\ t.hooks >= 1 /\ DropsByDefault(t)

\* C12 (preference): once setup has run, only killswitch_set changes the
\* kill-switch preference.
C12_OnlyKillswitchSetChangesPreference ==
    [][(main_pc = "running" /\ killswitch_enabled' # killswitch_enabled)
         => \E enabled \in BOOLEAN : KillswitchSet(MaxCommands, enabled, {SeededIp})]_vars

Range(f) == {f[i] : i \in DOMAIN f}

\* an enable of the kill switch has just reported success
EnableSucceeded ==
    \/ ret.cmd = "killswitch_set" /\ ret.res = "enabled"
    \/ ret.cmd = "helper_enable" /\ ret.res = "ok"

\* the accept rules the policy names: loopback, established/related, the
\* tunnel interface, DNS to a configured resolver, an endpoint address on its
\* port and transport
AcceptNamedByPolicy(r) ==
    \/ r \in {AcceptLoopback, AcceptEstablished,
              AcceptTunnel(TUN_IFNAME), AcceptTunnel(HELPER_TUN_IFNAMES)}
    \/ /\ r.dport = DNS_PORT
       /\ r.daddr \in Range(linux_nameservers)
       /\ r = AcceptTo(r.daddr, r.proto, DNS_PORT)
    \/ /\ r.dport # DNS_PORT
       /\ r.daddr # "any" /\ r.proto \in {"udp", "tcp"}
       /\ r = AcceptTo(r.daddr, r.proto, r.dport)

\* C13: after an enable that reported success the dedicated ruleset accepts
\* only loopback, established/related, the tunnel interface, DNS to the
\* configured resolvers and endpoint addresses on their port and transport,
\* and drops everything else after the accept rules; for the config
\* `remote vpn.example.com 1194 udp` resolving to 203.0.113.7 the endpoint
\* rule is UDP to 203.0.113.7 port 1194.
C13_RulesetAsSpecified ==
    /\ [](EnableSucceeded
            => /\ Installed(fw)
               /\ \A i \in DOMAIN fw.rules :
                    \/ AcceptNamedByPolicy(fw.rules[i])
                    \/ fw.rules[i] = DropAll /\ i = Len(fw.rules))
    /\ [][(HelperKillswitchEnable(ExampleConfig) /\ ret'.res = "ok")
            => AcceptTo("203.0.113.7", "udp", 1194) \in Range(fw'.rules)]_vars

\* a disable of the kill switch has just reported success
DisableSucceeded ==
    \/ ret.cmd = "killswitch_set" /\ ret.res = "disabled"
    \/ ret.cmd = "helper_disable" /\ ret.res = "ok"

\* C14: after any sequence of enable and disable calls, when a disable has
\* just reported success the dedicated table is absent (so a disable whose
\* delete command failed on an existing table has not reported success).
C14_DisableLeavesNoTable == DisableSucceeded => ~fw.table

EnginePath == "/opt/homebrew/sbin/openvpn"
OtherBinaryPath == "/tmp/evil"
MissingEnginePath == "/opt/missing/openvpn"
PaddedEnginePath == " /opt/homebrew/sbin/openvpn"
ConfigPath == "/tmp/stellar-vpn-desktop/current.ovpn"
MissingConfigPath == "/tmp/gone.ovpn"
AuthPath == "/tmp/stellar-vpn-desktop/auth.txt"

\* Path::is_file, Path::exists
is_file(p) == p \in {EnginePath, OtherBinaryPath, ConfigPath}
exists(p) == is_file(p) \/ p \in {"/tmp", "/tmp/stellar-vpn-desktop"}

\* str::trim
trim(s) == IF s = PaddedEnginePath THEN EnginePath ELSE s

\* Path::file_name of the paths above
file_name(p) ==
    CASE p = EnginePath -> "openvpn"
      [] p = MissingEnginePath -> "openvpn"
      [] p = OtherBinaryPath -> "evil"
      [] p = ConfigPath -> "current.ovpn"
      [] p = MissingConfigPath -> "gone.ovpn"
      [] OTHER -> p

\* str::starts_with over the names and prefixes the helper compares
starts_with(s, prefix) ==
    \/ prefix = "openvpn" /\ s \in {"openvpn", "openvpn-2.6"}
    \/ prefix = "/tmp/" /\ s \in {OtherBinaryPath, ConfigPath, MissingConfigPath, AuthPath}
    \/ prefix = "/tmp/stellar-vpn-desktop" /\ s \in {ConfigPath, AuthPath}

\* is_safe_openvpn_path without the file-name requirement
is_safe_openvpn_path_AnyFile(p) ==
    LET s == trim(p) IN
    s # "" /\ is_file(s)

is_safe_openvpn_path(p) ==
    LET s == trim(p) IN
    s # "" /\ is_file(s) /\ starts_with(file_name(s), "openvpn")

is_safe_config_path(p) ==
    LET s == trim(p) IN
    /\ s # ""
    /\ \/ is_file(s)
       \/ starts_with(s, "/var/folders/")
       \/ starts_with(s, "/tmp/stellar-vpn-desktop")
       \/ starts_with(s, "/tmp/")

\* the JSON lines on the socket, as records of their fields
ConnectLine(openvpn, config) ==
    [cmd |-> "connect", openvpn |-> openvpn, config |-> config,
     username |-> "user", password |-> "secret"]
DisconnectLine == [cmd |-> "disconnect"]
SubscribeLine == [cmd |-> "subscribe"]
StatusLine == [cmd |-> "status"]

\* Event::Status and Event::Log as serde writes them
StatusEvent(st) == [type |-> "status", status |-> st]
LogEvent(l) == [type |-> "log", line |-> l]

\* Resp as serde writes it (None fields are skipped)
RespOk == [ok |-> TRUE]
RespStatus(st) == [ok |-> TRUE, status |-> st]
RespError(e) == [ok |-> FALSE, error |-> e]

BadJson == [variant |-> "bad json"]

\* serde_json::from_str::<Req>: the tag selects the variant, and a variant's
\* fields must all be present; unknown fields are ignored
ParseReq(line) ==
    IF "cmd" \notin DOMAIN line THEN BadJson
    ELSE CASE line.cmd = "connect" ->
                  IF {"openvpn", "config", "username", "password"} \subseteq DOMAIN line
                  THEN [variant |-> "connect", openvpn |-> line.openvpn,
                        config |-> line.config, username |-> line.username,
                        password |-> line.password]
                  ELSE BadJson
           [] line.cmd = "disconnect" -> [variant |-> "disconnect"]
           [] line.cmd = "subscribe" -> [variant |-> "subscribe"]
           [] line.cmd = "status" -> [variant |-> "status"]
           [] OTHER -> BadJson

\* the request of a connection whose handler has read it
Req(c) == ParseReq(h_conn[c].req)

\* the two checks a connect request passes before anything is changed
ConnectChecks(r) ==
    IF ~is_safe_openvpn_path(r.openvpn) THEN "unsafe openvpn path"
    ELSE IF ~is_safe_config_path(r.config) \/ ~exists(r.config)
         THEN "config path not found/unsafe"
         ELSE "ok"

\* send_event: the line is queued for every receiver; the result is discarded
Publish(events) == h_events' = h_events \o events

\* the oldest message the channel still holds
Oldest == IF Len(h_events) > ChannelCap THEN Len(h_events) - ChannelCap + 1 ELSE 1

\* dropping a Child kills it (kill_on_drop), as does kill() followed by wait()
Killed(k) == IF k = NoId THEN h_alive ELSE h_alive \ {k}

\* main's accept loop: the receiver is created when the connection is accepted
HelperAccept(c, line) ==
    /\ h_conn[c].pc = "free"
    /\ \A d \in Conns : d < c => h_conn[d].pc # "free"
    /\ h_conn' = [h_conn EXCEPT ![c] = [@ EXCEPT !.pc = "accepted", !.req = line,
                                                 !.rx = Len(h_events) + 1,
                                                 !.from = Len(h_events) + 1]]
    /\ UNCHANGED <<h_status, h_child, h_alive, h_events, h_reader, client>>
    /\ UNCHANGED <<supervisor, has_nft, logs, applying>>

\* handle_conn: a line that is no request
HelperBadJson(c) ==
    /\ h_conn[c].pc = "accepted"
    /\ Req(c) = BadJson
    /\ h_conn' = [h_conn EXCEPT ![c] = [@ EXCEPT !.pc = "done",
                                                 !.out = <<RespError("bad json")>>]]
    /\ UNCHANGED <<h_status, h_child, h_alive, h_events, h_reader, client>>
    /\ UNCHANGED <<supervisor, has_nft, logs, applying>>

\* HelperSubscribe writing a fixed status
HelperSubscribe_FixedStatus(c) ==
    /\ h_conn[c].pc = "accepted"
    /\ Req(c).variant = "subscribe"
    /\ h_conn' = [h_conn EXCEPT ![c] = [@ EXCEPT !.pc = "streaming",
                                                 !.snap = Len(h_events),
                                                 !.out = <<StatusEvent("disconnected")>>]]
    /\ UNCHANGED <<h_status, h_child, h_alive, h_events, h_reader, client>>
    /\ UNCHANGED <<supervisor, has_nft, logs, applying>>

\* handle_conn, Req::Subscribe: the status snapshot is the first line written
HelperSubscribe(c) ==
    /\ h_conn[c].pc = "accepted"
    /\ Req(c).variant = "subscribe"
    /\ h_conn' = [h_conn EXCEPT ![c] = [@ EXCEPT !.pc = "streaming",
                                                 !.snap = Len(h_events),
                                                 !.out = <<StatusEvent(h_status)>>]]
    /\ UNCHANGED <<h_status, h_child, h_alive, h_events, h_reader, client>>
    /\ UNCHANGED <<supervisor, has_nft, logs, applying>>

\* HelperStream ending the subscription of a receiver that lagged
HelperStream_ClosesLagging(c) ==
    /\ h_conn[c].pc = "streaming"
    /\ h_conn[c].rx <= Len(h_events)
    /\ h_conn' = [h_conn EXCEPT ![c] =
           IF @.rx < Oldest
           THEN [@ EXCEPT !.pc = "done", !.lagged = TRUE]
           ELSE [@ EXCEPT !.rx = @ + 1,
                          !.got = Append(@, h_conn[c].rx),
                          !.out = Append(@, h_events[h_conn[c].rx])]]
    /\ UNCHANGED <<h_status, h_child, h_alive, h_events, h_reader, client>>
    /\ UNCHANGED <<supervisor, has_nft, logs, applying>>

\* the streaming loop: one recv, and the write of what it returned
HelperStream(c) ==
    /\ h_conn[c].pc = "streaming"
    /\ h_conn[c].rx <= Len(h_events)
    /\ h_conn' = [h_conn EXCEPT ![c] =
           IF @.rx < Oldest
           THEN [@ EXCEPT !.rx = Oldest, !.lagged = TRUE]
           ELSE [@ EXCEPT !.rx = @ + 1,
                          !.got = Append(@, h_conn[c].rx),
                          !.out = Append(@, h_events[h_conn[c].rx])]]
    /\ UNCHANGED <<h_status, h_child, h_alive, h_events, h_reader, client>>
    /\ UNCHANGED <<supervisor, has_nft, logs, applying>>

\* the subscriber closed its end: the next write fails and the loop breaks
HelperStreamBroken(c) ==
    /\ h_conn[c].pc = "streaming"
    /\ h_conn' = [h_conn EXCEPT ![c] = [@ EXCEPT !.pc = "done"]]
    /\ UNCHANGED <<h_status, h_child, h_alive, h_events, h_reader, client>>
    /\ UNCHANGED <<supervisor, has_nft, logs, applying>>

\* handle_conn, Req::Status
HelperStatus(c) ==
    /\ h_conn[c].pc = "accepted"
    /\ Req(c).variant = "status"
    /\ h_conn' = [h_conn EXCEPT ![c] = [@ EXCEPT !.pc = "done",
                                                 !.out = <<RespStatus(h_status)>>]]
    /\ UNCHANGED <<h_status, h_child, h_alive, h_events, h_reader, client>>
    /\ UNCHANGED <<supervisor, has_nft, logs, applying>>

\* handle_conn, Req::Disconnect: the locked block
HelperDisconnectLock(c) ==
    /\ h_conn[c].pc = "accepted"
    /\ Req(c).variant = "disconnect"
    /\ h_alive' = Killed(h_child)
    /\ h_child' = NoId
    /\ h_status' = "disconnected"
    /\ h_conn' = [h_conn EXCEPT ![c] = [@ EXCEPT !.pc = "disconnected"]]
    /\ UNCHANGED <<h_events, h_reader, client>>
    /\ UNCHANGED <<supervisor, has_nft, logs, applying>>

\* handle_conn, Req::Disconnect: the event and the response
HelperDisconnectPublish(c) ==
    /\ h_conn[c].pc = "disconnected"
    /\ Publish(<<StatusEvent("disconnected")>>)
    /\ h_conn' = [h_conn EXCEPT ![c] = [@ EXCEPT !.pc = "done", !.out = <<RespOk>>]]
    /\ UNCHANGED <<h_status, h_child, h_alive, h_reader, client>>
    /\ UNCHANGED <<supervisor, has_nft, logs, applying>>

\* handle_conn, Req::Connect: a request that fails a check is answered and dropped
HelperConnectReject(c) ==
    /\ h_conn[c].pc = "accepted"
    /\ Req(c).variant = "connect"
    /\ ConnectChecks(Req(c)) # "ok"
    /\ h_conn' = [h_conn EXCEPT ![c] = [@ EXCEPT !.pc = "done",
                                                 !.out = <<RespError(ConnectChecks(Req(c)))>>]]
    /\ UNCHANGED <<h_status, h_child, h_alive, h_events, h_reader, client>>
    /\ UNCHANGED <<supervisor, has_nft, logs, applying>>

\* handle_conn, Req::Connect: "kill existing", the first locked block
HelperConnectKill(c) ==
    /\ h_conn[c].pc = "accepted"
    /\ Req(c).variant = "connect"
    /\ ConnectChecks(Req(c)) = "ok"
    /\ h_alive' = Killed(h_child)
    /\ h_child' = NoId
    /\ h_status' = "connecting"
    /\ h_conn' = [h_conn EXCEPT ![c] = [@ EXCEPT !.pc = "checked"]]
    /\ UNCHANGED <<h_events, h_reader, client>>
    /\ UNCHANGED <<supervisor, has_nft, logs, applying>>

\* handle_conn, Req::Connect: the two events, the credential file and the spawn
\* of the path as it was sent; the subprocess of connection c is named c
HelperConnectSpawn(c, outcome) ==
    /\ h_conn[c].pc = "checked"
    /\ outcome = "spawned" => is_file(Req(c).openvpn)
    /\ IF outcome = "spawned"
       THEN /\ Publish(<<StatusEvent("connecting"), LogEvent("starting")>>)
            /\ h_alive' = h_alive \cup {c}
            /\ h_reader' = [h_reader EXCEPT ![c] = "running"]
            /\ h_conn' = [h_conn EXCEPT ![c] = [@ EXCEPT !.pc = "spawned"]]
            /\ UNCHANGED <<h_status, h_child>>
       ELSE /\ Publish(<<StatusEvent("connecting"), LogEvent("starting"),
                         StatusEvent("disconnected")>>)
            /\ h_alive' = Killed(h_child)
            /\ h_child' = NoId
            /\ h_status' = "disconnected"
            /\ h_conn' = [h_conn EXCEPT ![c] = [@ EXCEPT !.pc = "done",
                                                         !.out = <<RespError(outcome)>>]]
            /\ UNCHANGED h_reader
    /\ UNCHANGED client
    /\ UNCHANGED <<supervisor, has_nft, logs, applying>>

\* handle_conn, Req::Connect: "store child + start watcher" and the response;
\* the Child that was stored before is dropped
HelperConnectStore(c) ==
    /\ h_conn[c].pc = "spawned"
    /\ h_alive' = Killed(h_child)
    /\ h_child' = c
    /\ h_conn' = [h_conn EXCEPT ![c] = [@ EXCEPT !.pc = "done", !.out = <<RespOk>>]]
    /\ UNCHANGED <<h_status, h_events, h_reader, client>>
    /\ UNCHANGED <<supervisor, has_nft, logs, applying>>

\* the stdout task of subprocess k reads "Initialization Sequence Completed"
\* from the pipe: the status it stores and the two events it sends
ReaderReadsInit(k) ==
    /\ h_reader[k] = "running"
    /\ h_reader' = [h_reader EXCEPT ![k] = "initialized"]
    /\ h_status' = "connected"
    /\ Publish(<<LogEvent("init"), StatusEvent("connected")>>)
    /\ UNCHANGED <<h_child, h_alive, h_conn, client>>
    /\ UNCHANGED <<supervisor, has_nft, logs, applying>>

\* the stdout task reads the line while its subprocess runs
HelperReaderInit(k) ==
    /\ k \in h_alive
    /\ ReaderReadsInit(k)

\* the stdout task reads the line after its subprocess was killed or ended:
\* next_line goes on returning what is left in the pipe
HelperReaderDrain(k) ==
    /\ k \notin h_alive
    /\ ReaderReadsInit(k)

\* spawn_child_watcher: a poll that finds the stored subprocess gone
HelperChildWatcher ==
    /\ h_child # NoId
    /\ h_child \notin h_alive
    /\ h_child' = NoId
    /\ h_status' = "disconnected"
    /\ Publish(<<LogEvent("exited"), StatusEvent("disconnected")>>)
    /\ UNCHANGED <<h_alive, h_conn, h_reader, client>>
    /\ UNCHANGED <<supervisor, has_nft, logs, applying>>

\* a subprocess of the helper ends by itself
HelperChildExit(k) ==
    /\ k \in h_alive
    /\ h_alive' = h_alive \ {k}
    /\ UNCHANGED <<h_status, h_child, h_events, h_conn, h_reader, client>>
    /\ UNCHANGED <<supervisor, has_nft, logs, applying>>

\* --------------------------------------- macos_helper (the helper's client)

\* helper_connect: the request line it sends
helper_connect(openvpn_path, cfg_path, auth) ==
    [cmd |-> "connect", openvpn_path |-> openvpn_path, config_path |-> cfg_path,
     auth_path |-> auth]

\* helper_disconnect: the request line it sends
helper_disconnect == [cmd |-> "disconnect"]

\* spawn_helper_subscriber: the status a line leaves in the client's state;
\* a status event is read through its field "value"
SubscriberStatus(line, before) ==
    IF line.type = "status" /\ "value" \in DOMAIN line
    THEN CASE line.value = "connected" -> "connected"
           [] line.value = "connecting" -> "connecting"
           [] OTHER -> "disconnected"
    ELSE before

\* spawn_helper_subscriber: the client of connection c reads its next line
ClientSubscriberRead(c) ==
    /\ h_conn[c].req = SubscribeLine
    /\ client[c].seen < Len(h_conn[c].out)
    /\ client' = [client EXCEPT ![c] =
           [status |-> SubscriberStatus(h_conn[c].out[@.seen + 1], @.status),
            seen |-> @.seen + 1]]
    /\ UNCHANGED <<h_status, h_child, h_alive, h_events, h_conn, h_reader>>
    /\ UNCHANGED <<supervisor, has_nft, logs, applying>>

\* helper_connect, helper_disconnect: the client of connection c reads the
\* response to its request
ClientResponse(c) ==
    /\ h_conn[c].req \in {helper_connect(EnginePath, ConfigPath, AuthPath), helper_disconnect}
    /\ client[c].seen = 0
    /\ Len(h_conn[c].out) = 1
    /\ client' = [client EXCEPT ![c] =
           [status |-> IF ~h_conn[c].out[1].ok THEN @.status
                       ELSE IF h_conn[c].req = helper_disconnect THEN "disconnected"
                       ELSE "connecting",
            seen |-> 1]]
    /\ UNCHANGED <<h_status, h_child, h_alive, h_events, h_conn, h_reader>>
    /\ UNCHANGED <<supervisor, has_nft, logs, applying>>

\* ------------------------------------------- specification of the macOS helper

\* the supervisor is not running; the helper has just started
InitHelper ==
    /\ Init
    /\ session_file = NoRec

SpawnOutcomes == {"spawned", "auth_failed", "spawn_failed"}

\* the requests of the helper's protocol, well-formed, some failing a check
HelperLines ==
    {ConnectLine(EnginePath, ConfigPath), ConnectLine(OtherBinaryPath, ConfigPath),
     ConnectLine(MissingEnginePath, ConfigPath), ConnectLine(PaddedEnginePath, ConfigPath),
     ConnectLine(EnginePath, MissingConfigPath),
     DisconnectLine, StatusLine, [cmd |-> "quit"]}

\* the helper serving connect, disconnect and status requests
NextHelper ==
    \/ \E c \in Conns, line \in HelperLines : HelperAccept(c, line)
    \/ \E c \in Conns : HelperBadJson(c)
    \/ \E c \in Conns : HelperStatus(c)
    \/ \E c \in Conns : HelperDisconnectLock(c)
    \/ \E c \in Conns : HelperDisconnectPublish(c)
    \/ \E c \in Conns : HelperConnectReject(c)
    \/ \E c \in Conns : HelperConnectKill(c)
    \/ \E c \in Conns, outcome \in SpawnOutcomes : HelperConnectSpawn(c, outcome)
    \/ \E c \in Conns : HelperConnectStore(c)
    \/ \E k \in Conns : HelperReaderInit(k)
    \/ \E k \in Conns : HelperReaderDrain(k)
    \/ HelperChildWatcher
    \/ \E k \in Conns : HelperChildExit(k)

SpecHelper == InitHelper /\ [][NextHelper]_vars

\* subscribers, and the requests that make the helper publish
SubscribeLines == {SubscribeLine, ConnectLine(EnginePath, ConfigPath), DisconnectLine}

\* the helper serving subscribers while it publishes
NextSubscribe ==
    \/ \E c \in Conns, line \in SubscribeLines : HelperAccept(c, line)
    \/ \E c \in Conns : HelperSubscribe(c)
    \/ \E c \in Conns : HelperStream(c)
    \/ \E c \in Conns : HelperStreamBroken(c)
    \/ \E c \in Conns : HelperDisconnectLock(c)
    \/ \E c \in Conns : HelperDisconnectPublish(c)
    \/ \E c \in Conns : HelperConnectKill(c)
    \/ \E c \in Conns, outcome \in {"spawned", "spawn_failed"} : HelperConnectSpawn(c, outcome)
    \/ \E c \in Conns : HelperConnectStore(c)
    \/ \E k \in Conns : HelperReaderInit(k)
    \/ HelperChildWatcher
    \/ \E k \in Conns : HelperChildExit(k)

SpecSubscribe == InitHelper /\ [][NextSubscribe]_vars

\* what the client sends, and a connect request as the helper reads it
ClientLines ==
    {SubscribeLine, helper_connect(EnginePath, ConfigPath, AuthPath), helper_disconnect,
     ConnectLine(EnginePath, ConfigPath)}

\* the helper and its client
NextClient ==
    \/ \E c \in Conns, line \in ClientLines : HelperAccept(c, line)
    \/ \E c \in Conns : HelperBadJson(c)
    \/ \E c \in Conns : HelperSubscribe(c)
    \/ \E c \in Conns : HelperStream(c)
    \/ \E c \in Conns : HelperDisconnectLock(c)
    \/ \E c \in Conns : HelperDisconnectPublish(c)
    \/ \E c \in Conns : HelperConnectKill(c)
    \/ \E c \in Conns : HelperConnectSpawn(c, "spawned")
    \/ \E c \in Conns : HelperConnectStore(c)
    \/ \E k \in Conns : HelperReaderInit(k)
    \/ \E c \in Conns : ClientSubscriberRead(c)
    \/ \E c \in Conns : ClientResponse(c)

SpecClient == InitHelper /\ [][NextClient]_vars

\* the helper's own state is of the expected shape
HelperTypeOK ==
    /\ h_status \in {"disconnected", "connecting", "connected"}
    /\ h_child \in Conns \cup {NoId}
    /\ h_alive \subseteq Conns

\* C16: in the privileged helper at most one tunnel subprocess is alive at any
\* time, also when two connect requests are handled concurrently
C16_AtMostOneSubprocess ==
    Cardinality(h_alive) <= 1

\* a subprocess is started for the request of connection c in this step
HelperStarts(c) == c \in h_alive' /\ c \notin h_alive

\* the handler of connection c turns down a connect request in this step
HelperTurnsDown(c) ==
    /\ h_conn[c].pc = "accepted"
    /\ h_conn'[c].pc # "accepted"
    /\ Req(c).variant = "connect"
    /\ ConnectChecks(Req(c)) # "ok"

\* C17: the helper starts a subprocess only for a connect request whose engine
\* path is an existing regular file whose file name starts with openvpn and
\* whose config path exists and passes the config-path check; a request that
\* fails a check is answered with ok:false and an error, and the helper's
\* status and subprocesses are as before
C17_OnlyValidatedRequestsStart ==
    [][\A c \in Conns :
         /\ HelperStarts(c) =>
              /\ Req(c).variant = "connect"
              /\ is_file(Req(c).openvpn)
              /\ starts_with(file_name(Req(c).openvpn), "openvpn")
              /\ exists(Req(c).config)
              /\ is_safe_config_path(Req(c).config)
         /\ HelperTurnsDown(c) =>
              /\ Len(h_conn'[c].out) = 1
              /\ h_conn'[c].out[1].ok = FALSE
              /\ "error" \in DOMAIN h_conn'[c].out[1]
              /\ UNCHANGED <<h_status, h_child, h_alive>>]_vars

\* a connect request was turned down while a subprocess was running, and the
\* subprocess and the status are as they were; another request was served
C17_Witness ==
    \E c, d \in Conns :
        /\ h_conn[c].pc = "done"
        /\ h_conn[c].req = ConnectLine(OtherBinaryPath, ConfigPath)
        /\ h_conn[c].out = <<RespError("unsafe openvpn path")>>
        /\ h_conn[d].pc = "done"
        /\ h_conn[d].req = ConnectLine(EnginePath, ConfigPath)
        /\ d < c
        /\ h_child = d /\ h_alive = {d} /\ h_status = "connected"

\* the connections that have subscribed
Subscribed == {c \in Conns : h_conn[c].req = SubscribeLine /\ h_conn[c].pc \in {"streaming", "done"}}

\* the events connection c was written after its snapshot
Streamed(c) == [i \in 1..Len(h_conn[c].got) |-> h_events[h_conn[c].got[i]]]

\* the events of the channel from position a to position b, as positions
Positions(a, b) == [i \in 1..(b - a + 1) |-> a + i - 1]

\* C18: on a subscribe request the first message written to the connection is
\* a status event carrying the helper's status at that moment; after it the
\* connection is written every event published from then on, in publication
\* order, as long as its buffer has not overflowed
C18_SnapshotThenEveryEvent ==
    /\ [][\A c \in Conns :
            (h_conn[c].pc = "accepted" /\ h_conn'[c].pc = "streaming")
                => h_conn'[c].out = <<StatusEvent(h_status)>> /\ h_status' = h_status]_vars
    /\ [](\A c \in Subscribed :
            ~h_conn[c].lagged =>
                /\ h_conn[c].out = <<h_conn[c].out[1]>> \o Streamed(c)
                /\ h_conn[c].out[1].type = "status"
                /\ h_conn[c].from <= h_conn[c].snap + 1
                /\ h_conn[c].got = Positions(h_conn[c].from, h_conn[c].rx - 1))

\* a subscriber was told "connecting" first and then written every event
\* published since, two or more
C18_Witness ==
    \E c \in Subscribed :
        /\ h_conn[c].pc = "streaming"
        /\ ~h_conn[c].lagged
        /\ h_conn[c].out[1] = StatusEvent("connecting")
        /\ Len(h_conn[c].got) >= 2
        /\ h_conn[c].from = h_conn[c].snap + 1
        /\ h_conn[c].rx = Len(h_events) + 1

\* connection c is written the channel's messages in the order they were sent
InOrder(c) ==
    /\ \A i, j \in 1..Len(h_conn[c].got) : i < j => h_conn[c].got[i] < h_conn[c].got[j]
    /\ \A i \in 1..Len(h_conn[c].got) : h_conn[c].got[i] < h_conn[c].rx
    /\ Tail(h_conn[c].out) = Streamed(c)

\* the receiver of connection c finds in this step that it has lagged
Lags(c) == ~h_conn[c].lagged /\ h_conn'[c].lagged

\* C19: an event published once is delivered to every connection subscribed at
\* that time; publishing never waits for a subscriber, a subscriber that does
\* not read does not hold up delivery to the others, and a subscriber whose
\* buffer overflowed skips the missed messages and keeps receiving later ones
\* instead of being closed
C19_BroadcastToleratesLaggingSubscribers ==
    /\ [](\A c \in Subscribed :
            /\ InOrder(c)
            /\ ~h_conn[c].lagged => h_conn[c].got = Positions(h_conn[c].from, h_conn[c].rx - 1))
    /\ [](\A c \in Conns :
            /\ h_conn[c].pc = "disconnected" => ENABLED HelperDisconnectPublish(c)
            /\ h_conn[c].pc = "checked" => ENABLED HelperConnectSpawn(c, "spawn_failed")
            /\ (h_conn[c].pc = "streaming" /\ h_conn[c].rx <= Len(h_events))
                   => ENABLED HelperStream(c))
    /\ [][\A c \in Conns :
            Lags(c) =>
                /\ h_conn'[c].pc = "streaming"
                /\ h_conn'[c].rx = Oldest
                /\ h_conn'[c].rx <= Len(h_events)
                /\ h_conn'[c].out = h_conn[c].out]_vars

\* two subscribers: one read nothing until its buffer overflowed, skipped and
\* was then written a later event; the other was written every event meanwhile
C19_Witness ==
    \E c, d \in Subscribed :
        /\ c # d
        /\ h_conn[c].pc = "streaming" /\ h_conn[d].pc = "streaming"
        /\ h_conn[c].lagged
        /\ Len(h_conn[c].got) >= 1
        /\ h_conn[c].got[1] > h_conn[c].from
        /\ ~h_conn[d].lagged
        /\ Len(h_conn[d].got) > ChannelCap

\* the last line the client of connection c has processed
LastProcessed(c) == h_conn[c].out[client[c].seen]

\* the client's connect request is parsed by the helper as a connect request
ConnectRequestParsed ==
    \A c \in Conns :
        (h_conn[c].pc # "free" /\ h_conn[c].req = helper_connect(EnginePath, ConfigPath, AuthPath))
            => Req(c).variant = "connect"

\* every status event streamed to a subscriber has the field the client reads
StatusUnderValue ==
    \A c \in Subscribed :
        \A i \in 1..Len(h_conn[c].out) :
            h_conn[c].out[i].type = "status" => "value" \in DOMAIN h_conn[c].out[i]

\* a subscribed client that processed a status event has the status it carried
ClientFollowsStatusEvents ==
    \A c \in Subscribed :
        (client[c].seen >= 1 /\ LastProcessed(c).type = "status")
            => client[c].status = LastProcessed(c).status

\* C20: the two endpoints agree on the wire format: the connect request the
\* client sends (cmd, openvpn_path, config_path, auth_path) is parsed by the
\* helper as a connect request, every status event the helper streams carries
\* the status under the field value, and after a subscribed client has
\* processed a status event its status is the one the helper sent
C20_WireFormatAgreement ==
    /\ ConnectRequestParsed
    /\ StatusUnderValue
    /\ ClientFollowsStatusEvents

\* C21: whenever vpn_connect returns success while crash recovery is enabled,
\* a persisted session record holding the spawned subprocess's pid, the
\* artifact paths, the remote and the kill-switch flag exists at that moment
C21_SuccessLeavesSessionRecord ==
    (ret.cmd = "vpn_connect" /\ ret.res = "ok" /\ crash_recovery_enabled)
        => /\ session_file # NoRec
           /\ session_file.pid = ret.sid
           /\ session_file.log = ret.sid
           /\ session_file.rip = last_remote_ip
           /\ session_file.ks = killswitch_enabled

\* main's setup closure runs recover_on_startup on a persisted record
RecoversOnStartup == main_pc = "setup" /\ main_pc' = "running" /\ session_file # NoRec

\* C22: recover_on_startup with a persisted record: if the recorded pid is
\* dead, the record is deleted and the session state stays as it was (status
\* disconnected, no pid); if the pid is alive, a new session is adopted:
\* session_id advanced, status connecting, pid the recorded pid, and a log
\* tailer and a watchdog started for the new session id
C22_RecoveryAdoptsOrDiscards ==
    [][RecoversOnStartup =>
         IF unix_pid_alive(session_file.pid)
         THEN /\ session_id' = session_id + 1
              /\ status' = "connecting"
              /\ pid' = session_file.pid
              /\ tailer[session_id'].pc = "idle" /\ tailer'[session_id'].pc = "check"
              /\ watchdog[session_id'].pc = "idle" /\ watchdog'[session_id'].pc = "check"
         ELSE /\ session_file' = NoRec
              /\ status' = "disconnected" /\ pid' = NoId
              /\ UNCHANGED <<process, pid, status, paths, session_id, last_remote_ip>>
              /\ UNCHANGED <<tailer, watchdog, watcher>>]_vars

\* the setup closure has adopted the subprocess of the previous run, and the
\* threads of the new session have not moved yet
C22_Witness ==
    /\ main_pc = "running"
    /\ session_id = 1 /\ status = "connecting"
    /\ process = NoId /\ pid = RecoveredChild /\ RecoveredChild \in alive
    /\ tailer[1].pc = "check" /\ watchdog[1].pc = "check"
    /\ session_file # NoRec

\* ----------------------------------- an adopted session left to its threads

\* the clock advances as long as it has not reached its last value or a
\* watchdog of the current session still waits for its deadline or for the
\* log to fall silent
LiveTick(d) ==
    /\ \/ now + d <= MaxTime
       \/ \E s \in Sessions :
            /\ watchdog[s].pc \in {"check", "poll"} /\ session_is_active(s)
            /\ status = "connecting"
            /\ \/ now < watchdog[s].deadline
               \/ now - last_log_at_ms < CONNECT_STUCK_IDLE_GRACE_MS
    /\ now' = now + d
    /\ Continues
    /\ UNCHANGED <<inner, alive, files, fw, lines_read, fatal_logged, threads>>
    /\ UNCHANGED outside

\* the steps of the tailers and of the watchdogs
TailerRuns ==
    \E s \in Sessions :
        \/ TailerCheck(s) \/ TailerReadNothing(s) \/ TailerRead(s, TwoLines)
        \/ TailerLineCheck(s) \/ TailerInit(s) \/ TailerAuth(s)
WatchdogRuns ==
    \E s \in Sessions :
        \/ WatchdogCheck(s) \/ WatchdogPoll(s) \/ WatchdogAbortLock(s)
        \/ WatchdogAbortCleanup(s)

\* startup, and then no command from the UI: only the threads, the subprocess
\* and the clock
NextRecover ==
    \/ SetupNoSession({FALSE}, {TRUE}) \/ SetupStaleSession({FALSE}, {TRUE})
    \/ SetupRecover
    \/ TailerRuns
    \/ WatchdogRuns
    \/ \E k \in ChildIds : ChildExit(k)
    \/ LiveTick(CoarseTickMs)

\* every thread that can run does run, and time passes
SpecRecover ==
    /\ Init
    /\ [][NextRecover]_vars
    /\ WF_vars(SetupRecover)
    /\ WF_vars(TailerRuns)
    /\ WF_vars(WatchdogRuns)
    /\ WF_vars(LiveTick(CoarseTickMs))

\* the session adopted by recover_on_startup is the current one
Adopted == main_pc = "running" /\ session_id = 1 /\ tailer[1].pc # "idle"

\* C23: for a session adopted by recover_on_startup, if the recorded process
\* exits at any later time (while status is connecting or after it became
\* connected), status eventually becomes disconnected without any UI call
C23_AdoptedExitIsNoticed ==
    (Adopted /\ RecoveredChild \notin alive) ~> (status = "disconnected")

\* the background threads of session s are started in this step
StartsThreads(s) ==
    \/ VpnConnectFinish(s)
    \/ SetupRecover /\ s = session_id + 1

\* the sessions whose background threads have been started
WithThreads == {s \in Sessions : tailer[s].pc # "idle"}

\* session s gets its id in this step: vpn_connect's first lock, or the
\* adoption by recover_on_startup
GetsId(s) ==
    /\ s = session_id' /\ session_id' # session_id
    /\ \/ conn[s].pc = "idle" /\ conn'[s].pc = "prepare"
       \/ main_pc = "setup" /\ tailer'[s].pc # "idle"

\* C24: session_id never decreases; a session that starts background threads
\* (by vpn_connect or by recover_on_startup) gets an id greater than every id
\* background threads were started with before and than every id a running
\* vpn_connect holds; and background threads are started once per id, with an
\* id that has been given out, so no two sessions share an id.
C24_SessionIdsIncreaseAndAreUnique ==
    /\ [][session_id' >= session_id]_vars
    /\ [][\A s \in Sessions : GetsId(s) => \A e \in TaskSets : e < s]_vars
    /\ [][\A s \in Sessions :
            StartsThreads(s) =>
                /\ s \notin WithThreads
                /\ s <= session_id'
                /\ WithThreads' = WithThreads \cup {s}]_vars

\* the threads of an adopted session and, later, those of a session of
\* vpn_connect were started, after a vpn_disconnect in between
C24_Witness ==
    /\ tailer[1].pc # "idle" /\ watcher[1] = "idle"
    /\ tailer[3].pc # "idle" /\ watcher[3] # "idle"
    /\ session_id = 3

\* the status events of a sequence of published lines
RECURSIVE StatusEvents(_)
StatusEvents(events) ==
    IF events = <<>> THEN <<>>
    ELSE (IF Head(events).type = "status" THEN <<Head(events).status>> ELSE <<>>)
         \o StatusEvents(Tail(events))

\* no handler of the helper has stored a status whose event it has yet to send
HelperEventsSent == \A c \in Conns : h_conn[c].pc \notin {"disconnected", "checked"}

\* C25: status events are emitted in the order in which the stored status was
\* changed: whenever nobody is between changing the status and emitting its
\* event, the last status event equals the stored status (here for the
\* helper's broadcast status events)
C25_LastStatusEventIsStoredStatus ==
    (HelperEventsSent /\ StatusEvents(h_events) # <<>>)
        => StatusEvents(h_events)[Len(StatusEvents(h_events))] = h_status

\* ------------------------------------------------------------------- C26

TAIL_LINES == 80      \* the n that watchdog_abort_connect passes to tail_last_lines
MaxLogLines == 82     \* longest log file the abort is given

\* tail_last_lines: the lines from len.saturating_sub(n) on
tail_last_lines(lines, n) ==
    SubSeq(lines, Max(Len(lines) - n, 0) + 1, Len(lines))

\* a log file of n lines; line i is i
LogOf(n) == [i \in 1..n |-> i]

Event(ev, line) == [ev |-> ev, line |-> line]

\* what watchdog_abort_connect emits before it takes the lock
WatchdogAbortEvents(log) ==
    LET last == tail_last_lines(log, TAIL_LINES)
    IN  <<Event("status-error", 0), Event("log-abort", 0)>>
        \o (IF last # <<>>
            THEN <<Event("log-header", 0)>>
                 \o [i \in 1..Len(last) |-> Event("log-line", last[i])]
            ELSE <<Event("log-none", 0)>>)

\* the abort of session s returns with no later session begun meanwhile
WatchdogAbortEnds(s) ==
    /\ watchdog[s].pc = "cleanup" /\ watchdog'[s].pc = "done"
    /\ session_id = s + 1

\* the error event comes first and at most the last TAIL_LINES lines of the log,
\* in file order, follow it
BoundedTail(n) ==
    LET ev == WatchdogAbortEvents(LogOf(n))
        shown == SelectSeq(ev, LAMBDA e : e.ev = "log-line")
    IN  /\ ev[1].ev = "status-error"
        /\ Len(shown) <= TAIL_LINES
        /\ \A i \in 1..Len(shown) : shown[i].line = n - Len(shown) + i
        /\ Len(shown) = Min(n, TAIL_LINES)

\* C26: when the watchdog's abort of a session ends, the subprocess is dead,
\* the status is disconnected, the handle, the pid and the credential path are
\* cleared, the credential file is removed, the session record is cleared, the
\* session is no longer the current one, and what was emitted before the final
\* disconnected event is the error event followed by at most the last 80 lines
\* of the log.
C26_AbortEndState ==
    [][\A s \in Sessions :
         WatchdogAbortEnds(s) =>
           /\ watchdog[s].child \notin alive'
           /\ watchdog[s].pid \notin alive'
           /\ status' = "disconnected"
           /\ process' = NoId /\ pid' = NoId
           /\ auth_path' = NoId /\ pid_path' = NoId
           /\ watchdog[s].auth \notin auth_files'
           /\ session_file' = NoRec
           /\ ~session_is_active(s)'
           /\ \A n \in 0..MaxLogLines : BoundedTail(n)]_vars

\* ------------------------------------------------------------------- C27

\* the rules linux_killswitch_apply_nft adds, one command each, in order
NftRuleCommands(proto, port, remote_ip, allow_any_remote) ==
    <<AcceptLoopback, AcceptEstablished, AcceptTunnel(TUN_IFNAME)>>
    \o DnsRules(linux_nameservers)
    \o EndpointRules(proto, port, remote_ip, allow_any_remote)

\* the table after the first k commands of linux_killswitch_apply_nft: delete
\* table, add table, add chain with policy drop, then one add rule at a time
NftAfterCommands(t, proto, port, remote_ip, allow_any_remote, k) ==
    IF k = 0 THEN t
    ELSE IF k = 1 THEN NftDeleteTable(t)
    ELSE IF k = 2 THEN NftAddTable(NftDeleteTable(t))
    ELSE AddRules(NftAddChain(NftAddTable(NftDeleteTable(t)), "drop"),
                  SubSeq(NftRuleCommands(proto, port, remote_ip, allow_any_remote),
                         1, k - 3))

NftCommandCount(proto, port, remote_ip, allow_any_remote) ==
    3 + Len(NftRuleCommands(proto, port, remote_ip, allow_any_remote))

\* a packet on the output path
Packet(oif, ct, daddr, proto, dport) ==
    [oif |-> oif, ct |-> ct, daddr |-> daddr, proto |-> proto, dport |-> dport]

RuleMatches(r, p) ==
    /\ r.oif \in {"any", p.oif}
    /\ (r.ct = "any" \/ (r.ct = "established,related" /\ p.ct \in {"established", "related"}))
    /\ r.daddr \in {"any", p.daddr}
    /\ r.proto \in {"any", p.proto}
    /\ r.dport \in {0, p.dport}

\* the verdict of the dedicated table on a packet: the first matching rule,
\* else the chain policy; a table that is absent or not hooked lets it pass
RECURSIVE FirstVerdict(_, _, _)
FirstVerdict(rules, policy, p) ==
    IF rules = <<>> THEN policy
    ELSE IF RuleMatches(Head(rules), p) THEN Head(rules).verdict
    ELSE FirstVerdict(Tail(rules), policy, p)

Accepted(t, p) ==
    \/ ~t.table
    \/ t.hooks = 0
    \/ FirstVerdict(t.rules, t.policy, p) # "drop"

\* traffic of the running tunnel: a new connection leaving through the tunnel
\* interface, and the established flow to the VPN endpoint
TunnelOutput == Packet(TUN_IFNAME, "new", "198.51.100.7", "tcp", 443)
EndpointTraffic == Packet("eth0", "established", LearnedIp, last_proto, last_port)
TunnelFlows(t) == Accepted(t, TunnelOutput) /\ Accepted(t, EndpointTraffic)

\* the tailer of s re-applies the kill switch: tightening to the learned
\* address, or the re-apply on the initialization marker
TailerReapplies(s) ==
    /\ TailerLearn(s) \/ TailerInit(s)
    /\ killswitch_enabled
    /\ has_nft
ReappliedIp(s) == IF tailer[s].pc = "learn" THEN LearnedIp ELSE last_remote_ip

\* C27: while the tailer re-applies the kill switch (tightening, or the
\* re-apply on the initialization marker), every firewall state between two
\* firewall commands accepts output on the tunnel interface and the traffic to
\* the remote endpoint.
C27_TunnelFlowsDuringReapply ==
    [][\A s \in Sessions :
         TailerReapplies(s) =>
           \A k \in 1..(NftCommandCount(last_proto, last_port, ReappliedIp(s), FALSE) - 1) :
              TunnelFlows(NftAfterCommands(fw, last_proto, last_port, ReappliedIp(s),
                                           FALSE, k))]_vars

\* ------------------------------------------------------------------- C28

\* the rules of the table that accept the session's transport and port
EndpointRulesOf(t) ==
    SelectSeq(t.rules, LAMBDA r : r.verdict = "accept" /\ r.proto = last_proto
                                  /\ r.dport = last_port)

\* the tailer of the current session has read the "link remote" line with the
\* kill switch enabled, and no tailer is about to apply the kill switch
LearnedInSession(s) ==
    /\ session_is_active(s)
    /\ tailer[s].tightened
    /\ \A t \in Sessions : tailer[t].pc \notin {"learn", "init"}

\* C28: with the kill switch enabled and the remote address learned from the
\* log in the current session, once no command and no application is in
\* progress the installed table has one endpoint rule, for the learned address
\* on the session's transport and port, and no rule for any destination.
C28_EndpointRuleIsLearnedAddress ==
    \A s \in Sessions :
        (/\ LearnedInSession(s)
         /\ killswitch_enabled
         /\ CommandsInProgress = 0
         /\ Installed(fw))
            => EndpointRulesOf(fw) = <<AcceptTo(LearnedIp, last_proto, last_port)>>

\* ------------------------------------------------------------------- C29

\* the words OpenVPN accepts as the transport of a remote directive
TransportWords == {"udp", "tcp", "tcp-client", "udp4", "tcp4", "udp6", "tcp6"}

\* one (host, port, transport) per remote directive in file order: the
\* transport the directive names, else the given global one
RECURSIVE RemotesWithOwnTransport(_, _)
RemotesWithOwnTransport(lines, proto) ==
    IF lines = <<>> THEN <<>>
    ELSE LET l == Head(lines)
         IN  (IF ~Skipped(l) /\ Head(l) = "remote" /\ Len(l) >= 2
              THEN << [host |-> l[2],
                       port |-> IF Len(l) >= 3 THEN ParsePort(l[3], DEFAULT_PORT)
                                ELSE DEFAULT_PORT,
                       proto |-> IF Len(l) >= 4 /\ to_lowercase(l[4]) \in TransportWords
                                 THEN to_lowercase(l[4]) ELSE proto] >>
              ELSE <<>>) \o RemotesWithOwnTransport(Tail(lines), proto)

\* C29: parse_openvpn_remotes returns one (host, port, transport) per remote
\* directive, in file order; the transport is the one the directive names,
\* else the value of the global proto directive, else udp; comment lines and
\* empty lines contribute nothing.
C29_RemotesCarryOwnTransport ==
    [][\A config_text \in HelperConfigs :
         HelperKillswitchEnable(config_text)
           => parse_openvpn_remotes(config_text)
                = RemotesWithOwnTransport(config_text, GlobalProto(config_text, "udp"))]_vars

\* ------------------------------------------------------------------- C30

\* what the installed table does for the endpoint: it names an address, or
\* allows the port and transport to any destination, or has no endpoint rule
EndpointChoice(t) ==
    LET rs == EndpointRulesOf(t)
    IN  IF rs = <<>> THEN "omitted"
        ELSE IF \A i \in DOMAIN rs : rs[i].daddr = "any" THEN "any destination"
        ELSE "address"

\* C30: when the remote has no known address, every application of the kill
\* switch makes the same choice for it: a table installed without an address
\* rule is never replaced by one that makes the other choice (endpoint rule
\* omitted against port and transport allowed to any destination), whichever
\* of connect, the initialization marker, disconnect, the watchdog's abort and
\* recovery applies it.
C30_UnknownAddressOneChoice ==
    [][(/\ Installed(fw) /\ EndpointChoice(fw) # "address"
        /\ Installed(fw') /\ EndpointChoice(fw') # "address")
          => EndpointChoice(fw') = EndpointChoice(fw)]_vars

\* ------------------------------------------------------------------- C31

\* an application of the kill switch fails in this step: the old table was
\* deleted and the new one was not installed, with the preference enabled
ApplicationFails == killswitch_enabled' /\ fw.table /\ fw' = FwAbsent

\* a removal of the kill switch fails in this step: killswitch_set(false) or
\* the vpn_disconnect of a session without kill switch leaves the table
RemovalFails ==
    /\ fw.table /\ fw' = fw
    /\ \/ ret'.cmd = "killswitch_set" /\ ~killswitch_enabled'
       \/ VpnDisconnectFirewall /\ ~disc.ks_on

\* C31: every application or removal of the kill switch that fails ends in an
\* error returned to the caller (the supervisor emits no error event for a
\* firewall failure anywhere, so the returned error is the only report).
C31_FirewallFailureIsReported ==
    [][(ApplicationFails \/ RemovalFails) => ret'.res = "killswitch_failed"]_vars

\* ============================================ the log file, byte by byte

MaxBytes == 5         \* bytes the tunnel subprocess writes to its log

\* the bytes of the log: "I" followed by "S" on one line stands for the
\* "Initialization Sequence Completed" marker, "nl" is the line feed
Bytes == {"I", "S", "nl"}

\* str::lines: the text split at line feeds; a last line without line feed counts
RECURSIVE LinesFrom(_, _, _)
LinesFrom(text, cur, acc) ==
    IF text = <<>> THEN (IF cur = <<>> THEN acc ELSE Append(acc, cur))
    ELSE IF Head(text) = "nl" THEN LinesFrom(Tail(text), <<>>, Append(acc, cur))
    ELSE LinesFrom(Tail(text), Append(cur, Head(text)), acc)
str_lines(text) == LinesFrom(text, <<>>, <<>>)

ends_with_newline(text) == text # <<>> /\ text[Len(text)] = "nl"

Front(s) == SubSeq(s, 1, Len(s) - 1)

\* the subprocess appends one byte to its log
LogAppend(b) ==
    /\ Len(log_file) < MaxBytes
    /\ log_file' = Append(log_file, b)
    /\ UNCHANGED <<pos, carry, tailer_log, OPENVPN_LOG_POS, macos_log>>
    /\ UNCHANGED <<supervisor, has_nft, helper, applying>>

\* start_log_file_tailer, one turn of its loop: read from pos to the end of the
\* file, put the carry in front, hold back a last line without line feed, emit
\* the other lines
TailerPoll ==
    /\ LET chunk == SubSeq(log_file, pos + 1, Len(log_file))
           text == carry \o chunk
           lines == str_lines(text)
       IN  /\ pos' = Len(log_file)
           /\ IF chunk # <<>>
              THEN /\ tailer_log' = tailer_log \o (IF ends_with_newline(text)
                                                   THEN lines ELSE Front(lines))
                   /\ carry' = IF ends_with_newline(text) THEN <<>>
                               ELSE lines[Len(lines)]
              ELSE UNCHANGED <<carry, tailer_log>>
    /\ UNCHANGED <<log_file, OPENVPN_LOG_POS, macos_log>>
    /\ UNCHANGED <<supervisor, has_nft, helper, applying>>

\* spawn_helper_subscriber of src/macos_helper.rs, one turn of its loop: read
\* from OPENVPN_LOG_POS to the end of the file and emit every non-empty line
\* of the chunk
MacosPoll ==
    /\ LET buf == SubSeq(log_file, OPENVPN_LOG_POS + 1, Len(log_file))
       IN  /\ buf # <<>>
           /\ OPENVPN_LOG_POS' = OPENVPN_LOG_POS + Len(buf)
           /\ macos_log' = macos_log \o SelectSeq(str_lines(buf), LAMBDA l : l # <<>>)
    /\ UNCHANGED <<log_file, pos, carry, tailer_log>>
    /\ UNCHANGED <<supervisor, has_nft, helper, applying>>

NextLog ==
    \/ \E b \in Bytes : LogAppend(b)
    \/ TailerPoll
    \/ MacosPoll

SpecLog == Init /\ [][NextLog]_vars

\* ------------------------------------------------------------------- C32

\* the lines of a text that end with a line feed, in order
RECURSIVE CompleteLines(_)
CompleteLines(text) ==
    IF \A i \in DOMAIN text : text[i] # "nl" THEN <<>>
    ELSE LET n == CHOOSE i \in DOMAIN text :
                     text[i] = "nl" /\ \A j \in 1..(i - 1) : text[j] # "nl"
         IN  <<SubSeq(text, 1, n - 1)>> \o CompleteLines(SubSeq(text, n + 1, Len(text)))

HasMarker(line) == \E i \in 1..(Len(line) - 1) : line[i] = "I" /\ line[i + 1] = "S"
MarkerSeen(events) == \E i \in DOMAIN events : HasMarker(events[i])

\* what the tailer of main.rs has emitted is every complete line of what it
\* has read, once, whole and in file order, and a marker on a complete line
\* was seen
TailerEmitsCompleteLines ==
    /\ tailer_log = CompleteLines(SubSeq(log_file, 1, pos))
    /\ MarkerSeen(CompleteLines(SubSeq(log_file, 1, pos))) => MarkerSeen(tailer_log)

\* the same for the reader of src/macos_helper.rs, which leaves empty lines out
MacosEmitsCompleteLines ==
    /\ macos_log = SelectSeq(CompleteLines(SubSeq(log_file, 1, OPENVPN_LOG_POS)),
                             LAMBDA l : l # <<>>)
    /\ MarkerSeen(CompleteLines(SubSeq(log_file, 1, OPENVPN_LOG_POS)))
         => MarkerSeen(macos_log)

\* C32: every complete line appended to the log file is emitted as a log event
\* exactly once, whole and in file order, however the bytes are split across
\* polls; a line whose end is not written yet is held back, so that a marker
\* split across two reads is still detected. For both readers of a log file.
C32_LinesEmittedOnceAndWhole == TailerEmitsCompleteLines /\ MacosEmitsCompleteLines

\* ------------------------------------------------------------------- C33

\* the exit watcher of the current session has recorded the end of its
\* subprocess, and no vpn_connect has begun since
ExitRecorded == \E s \in Sessions : session_id = s /\ watcher[s] = "done"

\* C33: whenever the stored status is connected the supervisor holds a
\* subprocess handle or a recorded pid; and once the exit watcher has recorded
\* that the subprocess exited, the status does not become connected again
\* before a new vpn_connect.
C33_ConnectedHoldsSubprocess ==
    /\ [](status = "connected" => (process # NoId \/ pid # NoId))
    /\ [][(ExitRecorded /\ session_id' = session_id /\ status # "connected")
            => status' # "connected"]_vars

\* ------------------------------------------------------------------- C34

\* no command is in progress and no watchdog is in the middle of its abort
Quiescent ==
    /\ CommandsInProgress = 0
    /\ \A s \in Sessions : watchdog[s].pc \notin {"abort", "cleanup"}

\* C34: whenever the stored status is disconnected and no command is in
\* progress, the supervisor holds no subprocess handle, no subprocess it
\* spawned is still running, and the next vpn_connect is not rejected as
\* already running.
C34_DisconnectedHoldsNothing ==
    (main_pc = "running" /\ status = "disconnected" /\ Quiescent)
        => /\ process = NoId
           /\ alive \cap Sessions = {}
           /\ ~AlreadyRunning

\* ------------------------------------------------------------------- C35

\* the watchdog of s takes the lock of its abort in this step: it advances
\* session_id, takes the handle and the pid and stores "disconnected"
WatchdogKills(s) == watchdog[s].pc = "abort" /\ watchdog'[s].pc = "cleanup"

\* C35: the watchdog aborts only the session it was started for, and only
\* while that session's status is still connecting at the moment of the abort:
\* never a session that has become connected meanwhile, never a newer one.
C35_AbortsOwnConnectingSession ==
    [][\A s \in Sessions :
         WatchdogKills(s) => (session_is_active(s) /\ status = "connecting")]_vars

\* ------------------------------------------------------------------- C36

\* traffic that every finished ruleset drops: a new connection that leaves
\* through the physical interface to an address that is no resolver and no
\* endpoint
LeakingPacket == Packet("eth0", "new", "203.0.113.99", "tcp", 443)

\* C36: once the kill switch is installed and stays enabled, a re-application
\* keeps a drop-by-default ruleset in force between any two of its firewall
\* commands: the dedicated table is never absent and never accepts traffic
\* that the finished ruleset drops.
C36_ReapplyKeepsDropInForce ==
    [][\A remote_ip \in {NoIp, SeededIp, LearnedIp}, allow_any_remote \in BOOLEAN :
         (/\ has_nft /\ Installed(fw) /\ killswitch_enabled
          /\ fw' # fw
          /\ fw' = linux_killswitch_apply_nft(fw, last_proto, last_port, remote_ip,
                                              allow_any_remote))
           => \A k \in 1..(NftCommandCount(last_proto, last_port, remote_ip,
                                           allow_any_remote) - 1) :
                LET t == NftAfterCommands(fw, last_proto, last_port, remote_ip,
                                          allow_any_remote, k)
                IN  Installed(t) /\ ~Accepted(t, LeakingPacket)]_vars

\* ------------------------------------------------------------------- C37

\* killswitch_set has just returned an error
KillswitchSetFailed ==
    ret.cmd = "killswitch_set" /\ ret.res \in {"download_failed", "killswitch_failed"}

\* C37: a killswitch_set(true) that returns an error leaves the kill-switch
\* preference as it was before the call, and after a killswitch_set the
\* preference (what killswitch_status returns) is true only when the enable
\* installed its ruleset.
C37_FailedEnableKeepsPreference ==
    /\ [][KillswitchSetFailed' => killswitch_enabled' = killswitch_enabled]_vars
    /\ []((ret.cmd = "killswitch_set" /\ killswitch_enabled)
            => (ret.res = "enabled" /\ Installed(fw)))

\* ------------------------------------------------------------------- C38

\* C38: in the privileged helper the status becomes connected only from
\* connecting, never from disconnected (so after a disconnect it stays
\* disconnected until the next connect request), no connected event follows a
\* disconnected event without a connecting event between them, and whenever
\* the status is connected a subprocess is held.
C38_HelperStaysDisconnected ==
    /\ [][h_status = "disconnected" => h_status' # "connected"]_vars
    /\ [](\A i \in 1..(Len(StatusEvents(h_events)) - 1) :
            StatusEvents(h_events)[i] = "disconnected"
                => StatusEvents(h_events)[i + 1] # "connected")
    /\ [](h_status = "connected" => h_child # NoId)

\* ------------------------------------ a session whose subprocess exits by itself

\* one session started by vpn_connect and then no command from the UI: the
\* threads of the session, the subprocess and the clock
NextExit ==
    \/ SetupNoSession({FALSE}, {TRUE})
    \/ VpnConnectAllocate(MaxCommands, MaxTaskSets)
    \/ \E s \in Sessions :
         \/ VpnConnectPrepare(s, {TRUE}, {SeededIp})
         \/ VpnConnectSpawn(s, {TRUE})
         \/ VpnConnectStore(s) \/ VpnConnectFinish(s)
    \/ TailerRuns
    \/ WatchdogRuns
    \/ \E s \in Sessions : WatcherExited(s)
    \/ \E k \in ChildIds : ChildExit(k)
    \/ LiveTick(CoarseTickMs)

\* every thread that can run does run, and time passes
SpecExit ==
    /\ Init
    /\ [][NextExit]_vars
    /\ WF_vars(TailerRuns)
    /\ WF_vars(WatchdogRuns)
    /\ WF_vars(\E s \in Sessions : WatcherExited(s))
    /\ WF_vars(LiveTick(CoarseTickMs))

\* the exit watcher of session s has seen the subprocess gone and has stored
\* "disconnected"; s is still the current session
ExitObserved(s) == watcher[s] = "done" /\ session_is_active(s)

\* C39: once the exit watcher of a session has observed the exit and stored
\* disconnected, the tailer and the watchdog of that session eventually leave
\* their loops, with no vpn_connect or vpn_disconnect afterwards
C39_ThreadsEndAfterExit ==
    \A s \in Sessions :
        ExitObserved(s) ~> (TailerReturned(s) /\ WatchdogReturned(s))

\* ------------------------- linux_killswitch_apply, one firewall command at a time

MaxApplying == 2      \* calls of linux_killswitch_apply in one run

\* a firewall command: the operation and, for "rule", the rule it appends
Cmd(op, r) == [op |-> op, r |-> r]

\* the commands of linux_killswitch_apply_nft and of
\* linux_killswitch_apply_iptables in the order they are run; -N and -I are
\* one step, and so are the commands of linux_killswitch_disable
ApplyCommands(ip, allow) ==
    IF has_nft
    THEN <<Cmd("disable", DropAll), Cmd("add_table", DropAll), Cmd("add_chain", DropAll)>>
         \o [i \in 1..Len(NftRuleCommands(last_proto, last_port, ip, allow)) |->
               Cmd("rule", NftRuleCommands(last_proto, last_port, ip, allow)[i])]
    ELSE <<Cmd("disable", DropAll), Cmd("new_chain", DropAll)>>
         \o [i \in 1..Len(NftRuleCommands(last_proto, last_port, ip, allow)) |->
               Cmd("rule", NftRuleCommands(last_proto, last_port, ip, allow)[i])]
         \o <<Cmd("rule", DropAll)>>

\* linux_run_cmd returns Err: the chain is added to a table that is not there,
\* a chain is created that exists, a rule is added to a chain that is not there
CommandFails(t, c) ==
    CASE c.op = "add_chain" -> ~t.table
      [] c.op = "new_chain" -> t.table
      [] c.op = "rule" -> ~t.table \/ t.hooks = 0
      [] OTHER -> FALSE

\* the table after a command that succeeded
CommandDone(t, c) ==
    CASE c.op = "disable" -> KillswitchRemoved(t)
      [] c.op = "add_table" -> NftAddTable(t)
      [] c.op = "add_chain" -> NftAddChain(t, "drop")
      [] c.op = "new_chain" -> IptablesNewChain(t)
      [] OTHER -> AddRule(t, c.r)

\* what the callers pass: the tailer the learned address, the others the
\* address they remember, and "any remote" when they remember none
ApplierArgs(a) ==
    IF a = "tailer" THEN {<<LearnedIp, FALSE>>}
    ELSE {<<NoIp, TRUE>>, <<SeededIp, FALSE>>}

Applying == {a \in Appliers : applying[a].pc = "run"}
Applied == {a \in Appliers : applying[a].pc # "idle"}

\* linux_killswitch_apply up to the firewall commands: the endpoint is stored
\* under the lock, the lock is released
ApplyStart(a, maxApplying) ==
    /\ main_pc = "running"
    /\ killswitch_enabled
    /\ applying[a].pc = "idle"
    /\ Cardinality(Applied) < maxApplying
    /\ \E args \in ApplierArgs(a) :
         /\ applying' = [applying EXCEPT ![a] =
                [pc |-> "run", k |-> 0, ip |-> args[1], allow |-> args[2]]]
         /\ last_remote_ip' = IF args[1] # NoIp THEN args[1] ELSE last_remote_ip
    /\ Continues
    /\ UNCHANGED <<process, pid, status, paths, session_id, prefs, last_log_at_ms,
                   world, threads>>
    /\ UNCHANGED <<has_nft, helper, logs>>

\* the next firewall command of the call of a; the call returns after its last
\* command, or with the error of the command that failed
ApplyCommand(a) ==
    /\ applying[a].pc = "run"
    /\ LET cmds == ApplyCommands(applying[a].ip, applying[a].allow)
           c == cmds[applying[a].k + 1]
       IN  IF CommandFails(fw, c)
           THEN /\ applying' = [applying EXCEPT ![a] = [@ EXCEPT !.pc = "failed"]]
                /\ UNCHANGED fw
           ELSE /\ fw' = CommandDone(fw, c)
                /\ applying' = [applying EXCEPT ![a] =
                       [@ EXCEPT !.k = @ + 1,
                                 !.pc = IF applying[a].k + 1 = Len(cmds)
                                        THEN "done" ELSE "run"]]
    /\ Continues
    /\ UNCHANGED <<inner, now, alive, files, lines_read, fatal_logged, threads>>
    /\ UNCHANGED <<has_nft, helper, logs>>

\* the kill switch is on, and the threads apply it
NextApply ==
    \/ SetupNoSession({TRUE}, {TRUE})
    \/ \E a \in Appliers : ApplyStart(a, MaxApplying)
    \/ \E a \in Appliers : ApplyCommand(a)

SpecApply == InitKs /\ [][NextApply]_vars

\* what the call of a installs when no other call runs
InstalledAlone(a) == KillswitchApplied(FwAbsent, applying[a].ip, applying[a].allow)

\* the drops of the table: the chain policy, and the rules that drop everything
DropRules(t) == {i \in 1..Len(t.rules) : t.rules[i] = DropAll}
OneDrop(t) ==
    IF has_nft THEN t.policy = "drop" /\ DropRules(t) = {}
    ELSE DropRules(t) = {Len(t.rules)} /\ t.rules # <<>>

\* C40: the applications of the kill switch started by different threads do
\* not interleave their firewall commands: once all of them have returned and
\* one of them succeeded, the installed ruleset is the one that one of the
\* successful calls installs alone, with exactly one drop (the chain policy,
\* or the trailing drop rule)
C40_ApplicationsDoNotInterleave ==
    (Applying = {} /\ \E a \in Appliers : applying[a].pc = "done")
        => /\ \E a \in Appliers : applying[a].pc = "done" /\ fw = InstalledAlone(a)
           /\ OneDrop(fw)

====
